---- MODULE Spec2Model ----
(***************************************************************************)
(* ChainLex framework index (src/framework_index.py), its query API        *)
(* (src/chainlex_api.py) and its validator (src/framework_validator.py).   *)
(*                                                                         *)
(* Strings are sequences of one-character strings, so that lower(),        *)
(* substring tests and the "code:name" formatting are computed.            *)
(* Python dicts are sequences of [k, v] pairs in insertion order.          *)
(* Optional values are <<>> (None) or <<x>>.                               *)
(***************************************************************************)
EXTENDS Integers, Sequences, FiniteSets, TLC

VARIABLES
    dirs,     \* codes of the framework directories that exist under base_path
    disk,     \* the definitions in the .scm files, in glob/file order
    index,    \* the FrameworkIndex the callers hold: <<>> or <<ix>>
    fresh,    \* a FrameworkIndex whose constructor is running: <<>> or <<[ix, work]>>
    res,      \* the last call and what it returned
    errors,   \* FrameworkValidator.errors
    warnings, \* FrameworkValidator.warnings
    info,     \* FrameworkValidator.info
    validations, \* how many times validate_all has run on the validator
    graph,    \* the hypergraph of the EnhancedHypergraphAPI: <<>> or <<g>>
    search    \* a find_all_paths call that is running: <<>> or <<its state>>

validator == <<errors, warnings, info, validations>>
hyper == <<graph, search>>
vars == <<dirs, disk, index, fresh, res, validator, hyper>>

None == <<>>
Some(x) == <<x>>

----------------------------------------------------------------------------
(* Strings *)

LowerChar(c) ==
    CASE c = "A" -> "a"
      [] c = "B" -> "b"
      [] c = "C" -> "c"
      [] c = "D" -> "d"
      [] c = "E" -> "e"
      [] c = "F" -> "f"
      [] c = "G" -> "g"
      [] c = "H" -> "h"
      [] c = "I" -> "i"
      [] c = "J" -> "j"
      [] c = "K" -> "k"
      [] c = "L" -> "l"
      [] c = "M" -> "m"
      [] c = "N" -> "n"
      [] c = "O" -> "o"
      [] c = "P" -> "p"
      [] c = "Q" -> "q"
      [] c = "R" -> "r"
      [] c = "S" -> "s"
      [] c = "T" -> "t"
      [] c = "U" -> "u"
      [] c = "V" -> "v"
      [] c = "W" -> "w"
      [] c = "X" -> "x"
      [] c = "Y" -> "y"
      [] c = "Z" -> "z"
      [] OTHER -> c

\* str.lower()
Lower(s) == [i \in 1..Len(s) |-> LowerChar(s[i])]

\* Python's `sub in s` on strings
Contains(sub, s) ==
    \E i \in 0..(Len(s) - Len(sub)) : SubSeq(s, i + 1, i + Len(sub)) = sub

\* Python's `x in list`
InList(x, l) == \E i \in DOMAIN l : l[i] = x

----------------------------------------------------------------------------
(* Python dict / defaultdict(list), insertion ordered *)

DictKeys(d) == {d[i].k : i \in DOMAIN d}
DictHas(d, key) == \E i \in DOMAIN d : d[i].k = key
DictGet(d, key) == d[CHOOSE i \in DOMAIN d : d[i].k = key].v
DictGetOr(d, key, default) == IF DictHas(d, key) THEN DictGet(d, key) ELSE default

\* d[key] = val: an existing key keeps its position, a new key goes last
DictSet(d, key, val) ==
    IF DictHas(d, key)
    THEN [i \in DOMAIN d |-> IF d[i].k = key THEN [k |-> key, v |-> val] ELSE d[i]]
    ELSE Append(d, [k |-> key, v |-> val])

\* d[key].append(x) on a defaultdict(list)
DictAppend(d, key, x) == DictSet(d, key, Append(DictGetOr(d, key, <<>>), x))

----------------------------------------------------------------------------
(* framework_defs *)

lv1 == <<"l", "v", "1">>
civ == <<"c", "i", "v">>
cri == <<"c", "r", "i">>
con == <<"c", "o", "n">>
adm == <<"a", "d", "m">>
lab == <<"l", "a", "b">>
env == <<"e", "n", "v">>
cst == <<"c", "s", "t">>
int == <<"i", "n", "t">>

framework_defs == <<
    [code |-> lv1, name |-> "Level 1 Principles", level |-> 1, domains |-> <<>>],
    [code |-> civ, name |-> "Civil Law (ZA)", level |-> 2,
        domains |-> <<"contract", "delict", "property", "family">>],
    [code |-> cri, name |-> "Criminal Law (ZA)", level |-> 2, domains |-> <<"criminal">>],
    [code |-> con, name |-> "Constitutional Law (ZA)", level |-> 2,
        domains |-> <<"constitutional">>],
    [code |-> adm, name |-> "Administrative Law (ZA)", level |-> 2,
        domains |-> <<"administrative">>],
    [code |-> lab, name |-> "Labour Law (ZA)", level |-> 2,
        domains |-> <<"labour", "employment">>],
    [code |-> env, name |-> "Environmental Law (ZA)", level |-> 2,
        domains |-> <<"environmental">>],
    [code |-> cst, name |-> "Construction Law (ZA)", level |-> 2,
        domains |-> <<"construction">>],
    [code |-> int, name |-> "International Law (ZA)", level |-> 2,
        domains |-> <<"international">>] >>

AllCodes == {framework_defs[i].code : i \in DOMAIN framework_defs}

----------------------------------------------------------------------------
(* The corpus on disk *)

\* the function record _extract_functions_from_file appends for one definition
FuncRecord(d) ==
    [name |-> d.name, docstring |-> d.docstring,
     cross_references |-> d.cross_references,
     is_principle |-> d.is_principle, file |-> d.file]

\* list(path.glob('*.scm')) of the directory of framework `code`
RECURSIVE GlobFiles(_, _)
GlobFiles(dk, code) ==
    IF dk = <<>> THEN <<>>
    ELSE LET rest == GlobFiles(Tail(dk), code)
             f == Head(dk).file
         IN IF Head(dk).dir = code
            THEN <<f>> \o SelectSeq(rest, LAMBDA g : g # f)
            ELSE rest

\* the definitions written in one file, in file order
RECURSIVE FileDefinitions(_, _, _)
FileDefinitions(dk, code, file) ==
    IF dk = <<>> THEN <<>>
    ELSE LET rest == FileDefinitions(Tail(dk), code, file)
         IN IF Head(dk).dir = code /\ Head(dk).file = file
            THEN <<Head(dk)>> \o rest
            ELSE rest

\* the text of the definition holds a byte sequence that is not UTF-8
Undecodable(d) == "undecodable" \in DOMAIN d /\ d.undecodable

\* _extract_functions_from_file: f.read() decodes the whole file and raises on
\* the first undecodable byte; the except clause then returns [] for the file
ExtractFunctions(dk, code, file) ==
    LET definitions == FileDefinitions(dk, code, file)
    IN IF \E i \in DOMAIN definitions : Undecodable(definitions[i])
       THEN <<>>
       ELSE [i \in DOMAIN definitions |-> FuncRecord(definitions[i])]

\* a pathlib.Path of a file of the directory of framework `code`
PathOf(code, name) == [class |-> "Path", dir |-> code, name |-> name]

\* str(f) of a Path, or of what str() made of one
PathStr(f) == [f EXCEPT !.class = "str"]

----------------------------------------------------------------------------
(* FrameworkIndex construction *)

EmptyIndex ==
    [frameworks |-> <<>>, function_index |-> <<>>, principle_index |-> <<>>,
     domain_index |-> <<>>, cross_references |-> <<>>]

\* _load_frameworks: one entry per framework_defs item whose path exists
RECURSIVE LoadFrameworks(_, _, _)
LoadFrameworks(defs, ds, dk) ==
    IF defs = <<>> THEN <<>>
    ELSE LET d == Head(defs)
             rest == LoadFrameworks(Tail(defs), ds, dk)
         IN IF d.code \in ds
            THEN <<[k |-> d.code,
                    v |-> [code |-> d.code, name |-> d.name, level |-> d.level,
                           domains |-> d.domains,
                           files |-> [i \in DOMAIN GlobFiles(dk, d.code) |->
                                        PathOf(d.code, GlobFiles(dk, d.code)[i])],
                           functions |-> <<>>]]>> \o rest
            ELSE rest

\* f"{code}:{func['name']}"
FullName(code, name) == code \o <<":">> \o name

IndexedRecord(framework, func) ==
    [framework |-> framework.code, framework_name |-> framework.name,
     name |-> func.name, docstring |-> func.docstring,
     cross_references |-> func.cross_references,
     is_principle |-> func.is_principle, file |-> func.file]

PrincipleRecord(framework, func) ==
    [framework |-> framework.code,
     name |-> func.name, docstring |-> func.docstring,
     cross_references |-> func.cross_references,
     is_principle |-> func.is_principle, file |-> func.file]

\* mutant of StoreFunction: the key is the local name
StoreByLocalName(function_index, full, rec) == DictSet(function_index, rec.name, rec)

\* self.function_index[func_full_name] = {...}
StoreFunction(function_index, full, rec) == DictSet(function_index, full, rec)

\* mutant of AppendAll: only the first key gets x
AppendFirst(d, keys, x) ==
    IF keys = <<>> THEN d ELSE DictAppend(d, Head(keys), x)

RECURSIVE AppendAll(_, _, _)
\* for key in keys: d[key].append(x)
AppendAll(d, keys, x) ==
    IF keys = <<>> THEN d
    ELSE AppendAll(DictAppend(d, Head(keys), x), Tail(keys), x)

\* the body of "for func in functions" of _build_indices
IndexFunction(ix, framework, func) ==
    LET full == FullName(framework.code, func.name)
    IN [ix EXCEPT
          !.function_index = StoreFunction(@, full, IndexedRecord(framework, func)),
          !.domain_index = AppendAll(@, framework.domains, full),
          !.cross_references = AppendAll(@, func.cross_references, full),
          !.principle_index =
              IF func.is_principle \/ framework.level = 1
              THEN DictSet(@, func.name, PrincipleRecord(framework, func))
              ELSE @]

\* framework['functions'] = all_functions; framework['function_count'] = len(...)
FinishFramework(ix, code, all_functions) ==
    LET fw == DictGet(ix.frameworks, code)
    IN [ix EXCEPT !.frameworks =
          DictSet(@, code,
                  [fw EXCEPT !.functions = all_functions]
                      @@ ("function_count" :> Len(all_functions)))]

RECURSIVE FileSteps(_, _, _)
FileSteps(dk, code, files) ==
    IF files = <<>> THEN <<>>
    ELSE LET fs == ExtractFunctions(dk, code, Head(files).name)
         IN [i \in 1..Len(fs) |-> [kind |-> "index", code |-> code, func |-> fs[i]]]
            \o FileSteps(dk, code, Tail(files))

RECURSIVE BuildSteps(_, _)
\* the iterations of _build_indices over `fws`, in execution order
BuildSteps(fws, dk) ==
    IF fws = <<>> THEN <<>>
    ELSE LET code == Head(fws).k
             steps == FileSteps(dk, code, Head(fws).v.files)
         IN steps
            \o <<[kind |-> "finish", code |-> code,
                  all |-> [i \in 1..Len(steps) |-> steps[i].func]]>>
            \o BuildSteps(Tail(fws), dk)

ApplyStep(ix, step) ==
    IF step.kind = "index"
    THEN IndexFunction(ix, DictGet(ix.frameworks, step.code), step.func)
    ELSE FinishFramework(ix, step.code, step.all)

RECURSIVE ApplySteps(_, _)
ApplySteps(ix, steps) ==
    IF steps = <<>> THEN ix ELSE ApplySteps(ApplyStep(ix, Head(steps)), Tail(steps))

\* FrameworkIndex.__init__ run to its end
NewFrameworkIndex(ds, dk) ==
    LET loaded == [EmptyIndex EXCEPT !.frameworks = LoadFrameworks(framework_defs, ds, dk)]
    IN ApplySteps(loaded, BuildSteps(loaded.frameworks, dk))

----------------------------------------------------------------------------
(* FrameworkIndex queries *)

\* `if domain:` -- None and the empty string both mean "no filter"
DomainGiven(domain) == domain # None /\ domain[1] # ""

\* mutant of Relevance: the record's name and docstring are not lower-cased
RelevanceCaseSensitive(ix, func_data, query_lower, domain) ==
    IF DomainGiven(domain)
       /\ ~InList(domain[1], DictGet(ix.frameworks, func_data.framework).domains)
    THEN ""
    ELSE IF Contains(query_lower, func_data.name)
         THEN (IF query_lower = func_data.name THEN "exact" ELSE "partial")
         ELSE IF Contains(query_lower, func_data.docstring)
              THEN "description"
              ELSE ""

\* the relevance the loop of search_functions gives a record, "" when it is skipped
Relevance(ix, func_data, query_lower, domain) ==
    IF DomainGiven(domain)
       /\ ~InList(domain[1], DictGet(ix.frameworks, func_data.framework).domains)
    THEN ""
    ELSE IF Contains(query_lower, Lower(func_data.name))
         THEN (IF query_lower = Lower(func_data.name) THEN "exact" ELSE "partial")
         ELSE IF Contains(query_lower, Lower(func_data.docstring))
              THEN "description"
              ELSE ""

RECURSIVE SearchLoop(_, _, _, _)
\* for func_name, func_data in self.function_index.items(): ... results.append(...)
SearchLoop(ix, items, query_lower, domain) ==
    IF items = <<>> THEN <<>>
    ELSE LET rel == Relevance(ix, Head(items).v, query_lower, domain)
             rest == SearchLoop(ix, Tail(items), query_lower, domain)
         IN IF rel = "" THEN rest
            ELSE <<("relevance" :> rel) @@ Head(items).v>> \o rest

\* relevance_order.get(x.get('relevance', 'description'), 3)
RelevanceOrder(x) ==
    CASE x.relevance = "exact" -> 0
      [] x.relevance = "partial" -> 1
      [] x.relevance = "description" -> 2
      [] OTHER -> 3

RECURSIVE InsertBeforeEqual(_, _)
\* mutant of InsertByKey: x goes before the elements of equal key (not stable)
InsertBeforeEqual(sorted, x) ==
    IF sorted = <<>> THEN <<x>>
    ELSE IF RelevanceOrder(Head(sorted)) < RelevanceOrder(x)
         THEN <<Head(sorted)>> \o InsertBeforeEqual(Tail(sorted), x)
         ELSE <<x>> \o sorted

\* x goes after every element whose key is not greater: the order list.sort keeps
RECURSIVE InsertByKey(_, _)
InsertByKey(sorted, x) ==
    IF sorted = <<>> THEN <<x>>
    ELSE IF RelevanceOrder(Head(sorted)) <= RelevanceOrder(x)
         THEN <<Head(sorted)>> \o InsertByKey(Tail(sorted), x)
         ELSE <<x>> \o sorted

RECURSIVE SortByRelevance(_, _)
\* results.sort(key=...), a stable sort
SortByRelevance(sorted, todo) ==
    IF todo = <<>> THEN sorted
    ELSE SortByRelevance(InsertByKey(sorted, Head(todo)), Tail(todo))

search_functions(ix, query, domain) ==
    SortByRelevance(<<>>, SearchLoop(ix, ix.function_index, Lower(query), domain))

\* mutant of DomainReferences: any indexed function counts, whatever its domain
ReferencedAnywhere(ix, domain_funcs, principle_name) ==
    \E i \in DOMAIN ix.function_index :
        InList(principle_name, ix.function_index[i].v.cross_references)

\* some function of the domain lists principle_name in its cross_references
DomainReferences(ix, domain_funcs, principle_name) ==
    \E i \in DOMAIN domain_funcs :
        /\ DictHas(ix.function_index, domain_funcs[i])
        /\ InList(principle_name,
                  DictGet(ix.function_index, domain_funcs[i]).cross_references)

RECURSIVE PrinciplesLoop(_, _, _)
\* for principle_name, principle_data in self.principle_index.items(): ...
PrinciplesLoop(ix, items, domain_funcs) ==
    IF items = <<>> THEN <<>>
    ELSE LET rest == PrinciplesLoop(ix, Tail(items), domain_funcs)
             pd == Head(items).v
         IN IF DomainReferences(ix, domain_funcs, Head(items).k)
            THEN <<[name |-> Head(items).k, framework |-> pd.framework,
                    docstring |-> pd.docstring, file |-> pd.file]>> \o rest
            ELSE rest

find_principles_by_domain(ix, domain) ==
    PrinciplesLoop(ix, ix.principle_index, DictGetOr(ix.domain_index, domain, <<>>))

find_derived_rules(ix, principle_name) ==
    LET names == DictGetOr(ix.cross_references, principle_name, <<>>)
    IN [i \in 1..Len(names) |-> DictGet(ix.function_index, names[i])]

RECURSIVE ChainLoopAnyNamed(_, _, _)
\* mutant of ChainLoop: the cross_references of the record are not looked at
ChainLoopAnyNamed(items, start_principle, end_function) ==
    IF items = <<>> THEN <<>>
    ELSE LET func_data == Head(items).v
         IN IF func_data.name = end_function
            THEN << [node |-> start_principle, type |-> "principle", level |-> 1],
                    [node |-> end_function, type |-> "rule", level |-> 2]
                        @@ func_data >>
            ELSE ChainLoopAnyNamed(Tail(items), start_principle, end_function)

RECURSIVE ChainLoop(_, _, _)
\* the loop of build_inference_chain: the first record named end_function decides
ChainLoop(items, start_principle, end_function) ==
    IF items = <<>> THEN <<>>
    ELSE LET func_data == Head(items).v
         IN IF func_data.name = end_function
            THEN IF InList(start_principle, func_data.cross_references)
                 THEN << [node |-> start_principle, type |-> "principle", level |-> 1],
                         [node |-> end_function, type |-> "rule", level |-> 2]
                             @@ func_data >>
                 ELSE <<>>
            ELSE ChainLoop(Tail(items), start_principle, end_function)

\* return chain if chain else None
build_inference_chain(ix, start_principle, end_function) ==
    LET chain == ChainLoop(ix.function_index, start_principle, end_function)
    IN IF chain # <<>> THEN Some(chain) ELSE None

\* mutant of AfterGet: the lookup is d[key], which a defaultdict answers by
\* inserting the key with an empty list
AfterSubscript(d, key) == IF DictHas(d, key) THEN d ELSE DictSet(d, key, <<>>)

\* the defaultdict d after d.get(key, []): get inserts nothing
AfterGet(d, key) == d

\* the index after find_principles_by_domain: domain_index.get(domain, []) is
\* evaluated for every principle
AfterFindPrinciplesByDomain(ix, domain) ==
    IF ix.principle_index = <<>> THEN ix
    ELSE [ix EXCEPT !.domain_index = AfterGet(@, domain)]

\* the index after find_derived_rules
AfterFindDerivedRules(ix, principle_name) ==
    [ix EXCEPT !.cross_references = AfterGet(@, principle_name)]

RECURSIVE DomainStats(_, _)
\* for domain, funcs in self.domain_index.items(): stats['domains'][domain] = ...
DomainStats(ix, items) ==
    IF items = <<>> THEN <<>>
    ELSE <<[k |-> Head(items).k,
            v |-> [function_count |-> Len(Head(items).v),
                   principles |-> Len(find_principles_by_domain(ix, Head(items).k))]]>>
         \o DomainStats(ix, Tail(items))

get_framework_stats(ix) ==
    [total_frameworks |-> Len(ix.frameworks),
     total_functions |-> Len(ix.function_index),
     total_principles |-> Len(ix.principle_index),
     frameworks |->
        [i \in DOMAIN ix.frameworks |->
            [k |-> ix.frameworks[i].k,
             v |-> [name |-> ix.frameworks[i].v.name,
                    level |-> ix.frameworks[i].v.level,
                    function_count |-> ix.frameworks[i].v.function_count,
                    domains |-> ix.frameworks[i].v.domains]]],
     domains |-> DomainStats(ix, ix.domain_index)]

RECURSIVE AfterGetFrameworkStats(_, _)
\* the index after get_framework_stats: one find_principles_by_domain per
\* domain of the domain index
AfterGetFrameworkStats(ix, items) ==
    IF items = <<>> THEN ix
    ELSE AfterGetFrameworkStats(AfterFindPrinciplesByDomain(ix, Head(items).k), Tail(items))

\* an exception leaving the call
KeyError == <<[raised |-> "KeyError"]>>

\* [d[name] for name in names] on a plain dict
SubscriptAll(d, names) ==
    IF \E i \in DOMAIN names : ~DictHas(d, names[i]) THEN KeyError
    ELSE [i \in DOMAIN names |-> DictGet(d, names[i])]

\* RulesAPI.by_framework
rules_by_framework(ix, framework_code) ==
    IF ~DictHas(ix.frameworks, framework_code) THEN <<>>
    ELSE SelectSeq(DictGet(ix.frameworks, framework_code).functions,
                   LAMBDA func : ~func.is_principle)

\* RulesAPI.by_domain
rules_by_domain(ix, domain) ==
    SubscriptAll(ix.function_index, DictGetOr(ix.domain_index, domain, <<>>))

\* mutant of principles_get: principle_index[name]
principles_subscript(ix, name) ==
    IF DictHas(ix.principle_index, name) THEN Some(DictGet(ix.principle_index, name))
    ELSE KeyError

\* PrinciplesAPI.get: principle_index.get(name)
principles_get(ix, name) ==
    IF DictHas(ix.principle_index, name) THEN Some(DictGet(ix.principle_index, name))
    ELSE None

----------------------------------------------------------------------------
(* export_index and the reload of what it wrote *)

\* the keys of the dicts of the index, in insertion order
FunctionIndexKeys ==
    <<"framework", "framework_name", "name", "docstring", "cross_references",
      "is_principle", "file">>
PrincipleIndexKeys ==
    <<"framework", "name", "docstring", "cross_references", "is_principle", "file">>
FunctionKeys == <<"name", "docstring", "cross_references", "is_principle", "file">>
FrameworkKeys ==
    <<"code", "name", "level", "domains", "files", "functions", "function_count">>

\* for fw_code, fw_data in export_data['frameworks'].items():
\*     fw_data['files'] = [str(f) for f in fw_data['files']]
\* export_data['frameworks'] is self.frameworks itself, not a copy
FilesAsStrings(frameworks) ==
    [i \in DOMAIN frameworks |->
        [k |-> frameworks[i].k,
         v |-> [frameworks[i].v EXCEPT !.files = [j \in DOMAIN @ |-> PathStr(@[j])]]]]

\* the index after export_index: the statistics are computed, then the files
\* of every framework are replaced
AfterExportIndex(ix) ==
    [AfterGetFrameworkStats(ix, ix.domain_index) EXCEPT
        !.frameworks = FilesAsStrings(@)]

\* json.dump of a dict with string keys: an object, a sequence of members in
\* the insertion order of the keys
JsonObject(d, keys) == [i \in DOMAIN keys |-> [k |-> keys[i], v |-> d[keys[i]]]]

\* json.dump of a dict of such dicts
JsonObjects(d, keys) ==
    [i \in DOMAIN d |-> [k |-> d[i].k, v |-> JsonObject(d[i].v, keys)]]

JsonFramework(fw) ==
    JsonObject([fw EXCEPT !.functions =
                   [i \in DOMAIN @ |-> JsonObject(@[i], FunctionKeys)]],
               FrameworkKeys)

\* the member 'principle_index' of export_data
ExportedPrincipleIndex(ix) == JsonObjects(ix.principle_index, PrincipleIndexKeys)

\* mutant of ExportedFunctionIndex: the member is written from the principle index
ExportedFunctionIndexOfPrinciples(ix) == ExportedPrincipleIndex(ix)

\* the member 'function_index' of export_data
ExportedFunctionIndex(ix) == JsonObjects(ix.function_index, FunctionIndexKeys)

\* the JSON document export_index writes
export_index(ix) ==
    LET after == AfterExportIndex(ix)
    IN <<[k |-> "frameworks",
          v |-> [i \in DOMAIN after.frameworks |->
                    [k |-> after.frameworks[i].k,
                     v |-> JsonFramework(after.frameworks[i].v)]]],
         [k |-> "function_index", v |-> ExportedFunctionIndex(after)],
         [k |-> "principle_index", v |-> ExportedPrincipleIndex(after)],
         [k |-> "domain_index", v |-> after.domain_index],
         [k |-> "cross_references", v |-> after.cross_references],
         [k |-> "stats", v |-> get_framework_stats(ix)]>>

\* a JSON object read back as a dict with fixed keys
FromJsonObject(obj) == [key \in {obj[i].k : i \in DOMAIN obj} |-> DictGet(obj, key)]

FromJsonObjects(d) == [i \in DOMAIN d |-> [k |-> d[i].k, v |-> FromJsonObject(d[i].v)]]

FromJsonFramework(obj) ==
    [FromJsonObject(obj) EXCEPT !.functions = [i \in DOMAIN @ |-> FromJsonObject(@[i])]]

\* the index a reload makes of a snapshot, without parsing any source document
reload(snapshot) ==
    [frameworks |->
        [i \in DOMAIN DictGet(snapshot, "frameworks") |->
            [k |-> DictGet(snapshot, "frameworks")[i].k,
             v |-> FromJsonFramework(DictGet(snapshot, "frameworks")[i].v)]],
     function_index |-> FromJsonObjects(DictGet(snapshot, "function_index")),
     principle_index |-> FromJsonObjects(DictGet(snapshot, "principle_index")),
     domain_index |-> DictGet(snapshot, "domain_index"),
     cross_references |-> DictGet(snapshot, "cross_references")]

----------------------------------------------------------------------------
(* ChainLex.search *)

RECURSIVE PrinciplesSearchLoop(_, _)
\* for name, data in self.index.principle_index.items(): ... results.append(...)
PrinciplesSearchLoop(items, query_lower) ==
    IF items = <<>> THEN <<>>
    ELSE LET rest == PrinciplesSearchLoop(Tail(items), query_lower)
         IN IF \/ Contains(query_lower, Lower(Head(items).k))
               \/ Contains(query_lower, Lower(Head(items).v.docstring))
            THEN <<[Head(items).v EXCEPT !.name = Head(items).k]>> \o rest
            ELSE rest

\* PrinciplesAPI.search
principles_search(ix, query) == PrinciplesSearchLoop(ix.principle_index, Lower(query))

\* ChainLex.search
chainlex_search(ix, query, domain) ==
    [principles |-> principles_search(ix, query),
     rules |-> search_functions(ix, query, domain)]

----------------------------------------------------------------------------
(* Corpora and call arguments *)

MaxDefs == 3

SeqsOfLen(S, n) == [1..n -> S]

\* the definitions of directory A's files followed by those of directory B's files,
\* at most n in all
Corpora(A, B, n) ==
    UNION { {a \o b : a \in SeqsOfLen(A, x[1]), b \in SeqsOfLen(B, x[2])} :
            x \in {y \in (0..n) \X (0..n) : y[1] + y[2] <= n} }

RefNames == {<<"p">>, <<"q">>, <<"t">>}
RefLists == {<<>>, <<<<"p">>>>, <<<<"q">>>>, <<<<"p">>, <<"p">>>>, <<<<"q">>, <<"p">>>>}

\* principles p, q, t in lv1; rules q, t in civ, each with a list of references
RefDefsLv1 ==
    [dir : {lv1}, file : {"principles.scm"}, name : RefNames, docstring : {<<>>},
     cross_references : {<<>>}, is_principle : {TRUE}]
RefDefsCiv ==
    [dir : {civ}, file : {"contract.scm"}, name : {<<"q">>, <<"t">>}, docstring : {<<>>},
     cross_references : RefLists, is_principle : {FALSE}]

SearchNames == {<<"a">>, <<"a", "b">>, <<"B">>}
SearchDocs == {<<>>, <<"x", "A">>}

\* records whose names and docstrings contain one another, in lv1 and in civ
SearchDefsLv1 ==
    [dir : {lv1}, file : {"principles.scm"}, name : SearchNames, docstring : SearchDocs,
     cross_references : {<<>>}, is_principle : {TRUE}]
SearchDefsCiv ==
    [dir : {civ}, file : {"contract.scm"}, name : SearchNames, docstring : SearchDocs,
     cross_references : {<<>>}, is_principle : {FALSE}]

QueryArgs == {<<"a">>, <<"A">>, <<"b">>, <<"a", "b">>, <<"x">>, <<"z">>}
DomainArgs == {None, Some(""), Some("contract"), Some("delict"), Some("criminal")}
DomainNames == {"contract", "delict", "criminal"}
NameArgs == RefNames \cup {<<"z">>}

----------------------------------------------------------------------------
(* Sequential use: construct the index, then query it *)

\* the caller is between two calls; otherwise res holds the result of its last call
Idle == [op |-> "idle"]

\* no index yet, no call made, a new validator
InitCaller ==
    /\ index = None
    /\ fresh = None
    /\ res = Idle
    /\ errors = <<>>
    /\ warnings = <<>>
    /\ info = <<>>
    /\ validations = 0

InitCommon ==
    /\ InitCaller
    /\ graph = None
    /\ search = None

InitRefs ==
    /\ dirs = {lv1, civ}
    /\ disk \in Corpora(RefDefsLv1, RefDefsCiv, MaxDefs)
    /\ InitCommon

InitSearch ==
    /\ dirs = {lv1, civ}
    /\ disk \in Corpora(SearchDefsLv1, SearchDefsCiv, MaxDefs)
    /\ InitCommon

\* index = FrameworkIndex(base_path)
Construct ==
    /\ index = None
    /\ fresh = None
    /\ index' = Some(NewFrameworkIndex(dirs, disk))
    /\ UNCHANGED res
    /\ UNCHANGED <<hyper, dirs, disk, fresh, validator>>

SearchFunctions ==
    /\ index # None
    /\ res = Idle
    /\ \E query \in QueryArgs, domain \in DomainArgs :
          res' = [op |-> "search_functions", query |-> query, domain |-> domain,
                  out |-> search_functions(index[1], query, domain)]
    /\ UNCHANGED <<hyper, dirs, disk, index, fresh, validator>>

FindPrinciplesByDomain ==
    /\ index # None
    /\ res = Idle
    /\ \E domain \in DomainNames :
          /\ res' = [op |-> "find_principles_by_domain", domain |-> domain,
                     out |-> find_principles_by_domain(index[1], domain)]
          /\ index' = Some(AfterFindPrinciplesByDomain(index[1], domain))
    /\ UNCHANGED <<hyper, dirs, disk, fresh, validator>>

FindDerivedRules ==
    /\ index # None
    /\ res = Idle
    /\ \E principle_name \in NameArgs :
          /\ res' = [op |-> "find_derived_rules", principle_name |-> principle_name,
                     out |-> find_derived_rules(index[1], principle_name)]
          /\ index' = Some(AfterFindDerivedRules(index[1], principle_name))
    /\ UNCHANGED <<hyper, dirs, disk, fresh, validator>>

BuildInferenceChain ==
    /\ index # None
    /\ res = Idle
    /\ \E start_principle \in NameArgs, end_function \in NameArgs :
          res' = [op |-> "build_inference_chain", start_principle |-> start_principle,
                  end_function |-> end_function,
                  out |-> build_inference_chain(index[1], start_principle, end_function)]
    /\ UNCHANGED <<hyper, dirs, disk, index, fresh, validator>>

CodeArgs == {lv1, civ, cri, <<"x">>}

RulesByFramework ==
    /\ index # None
    /\ res = Idle
    /\ \E framework_code \in CodeArgs :
          res' = [op |-> "rules.by_framework", framework_code |-> framework_code,
                  out |-> rules_by_framework(index[1], framework_code)]
    /\ UNCHANGED <<hyper, dirs, disk, index, fresh, validator>>

RulesByDomain ==
    /\ index # None
    /\ res = Idle
    /\ \E domain \in DomainNames :
          /\ res' = [op |-> "rules.by_domain", domain |-> domain,
                     out |-> rules_by_domain(index[1], domain)]
          /\ index' = Some([index[1] EXCEPT !.domain_index = AfterGet(@, domain)])
    /\ UNCHANGED <<hyper, dirs, disk, fresh, validator>>

PrinciplesGet ==
    /\ index # None
    /\ res = Idle
    /\ \E name \in NameArgs :
          res' = [op |-> "principles.get", name |-> name,
                  out |-> principles_get(index[1], name)]
    /\ UNCHANGED <<hyper, dirs, disk, index, fresh, validator>>

GetFrameworkStats ==
    /\ index # None
    /\ res = Idle
    /\ res' = [op |-> "get_framework_stats", out |-> get_framework_stats(index[1])]
    /\ index' = Some(AfterGetFrameworkStats(index[1], index[1].domain_index))
    /\ UNCHANGED <<hyper, dirs, disk, fresh, validator>>

\* the caller is done with the result and goes on to its next call
Return ==
    /\ res # Idle
    /\ res' = Idle
    /\ UNCHANGED <<hyper, dirs, disk, index, fresh, validator>>

Next ==
    \/ Construct
    \/ Return
    \/ SearchFunctions
    \/ FindPrinciplesByDomain
    \/ FindDerivedRules
    \/ BuildInferenceChain
    \/ GetFrameworkStats
    \/ RulesByFramework
    \/ RulesByDomain
    \/ PrinciplesGet

Spec == InitRefs /\ [][Next]_vars

SpecSearch == InitSearch /\ [][Next]_vars

----------------------------------------------------------------------------
(* Construction step by step, with callers querying meanwhile *)

\* mutant of ReferenceWhileBuilding: the constructor hands itself out at once
ReferenceLeaked(held, building) == Some(building)

\* what the callers' reference designates while a constructor is running on
\* `building`: __init__ stores self nowhere, so still the index they held
ReferenceWhileBuilding(held, building) == held

\* __init__ up to and including _load_frameworks
BeginBuild ==
    /\ fresh = None
    /\ LET loaded == [EmptyIndex EXCEPT
                        !.frameworks = LoadFrameworks(framework_defs, dirs, disk)]
       IN /\ fresh' = Some([ix |-> loaded, work |-> BuildSteps(loaded.frameworks, disk)])
          /\ index' = ReferenceWhileBuilding(index, loaded)
    /\ UNCHANGED <<hyper, dirs, disk, res, validator>>

\* one iteration of _build_indices
BuildStep ==
    /\ fresh # None
    /\ fresh[1].work # <<>>
    /\ fresh' = Some([ix |-> ApplyStep(fresh[1].ix, Head(fresh[1].work)),
                      work |-> Tail(fresh[1].work)])
    /\ index' = ReferenceWhileBuilding(index, fresh'[1].ix)
    /\ UNCHANGED <<hyper, dirs, disk, res, validator>>

\* __init__ returns and the caller's assignment binds the new object
Publish ==
    /\ fresh # None
    /\ fresh[1].work = <<>>
    /\ index' = Some(fresh[1].ix)
    /\ fresh' = None
    /\ UNCHANGED <<hyper, dirs, disk, res, validator>>

\* an exception leaves __init__ before the build is over: the assignment is not run
BuildFail ==
    /\ fresh # None
    /\ fresh[1].work # <<>>
    /\ fresh' = None
    /\ UNCHANGED <<hyper, dirs, disk, index, res, validator>>

NextBuild ==
    \/ BeginBuild
    \/ BuildStep
    \/ Publish
    \/ BuildFail
    \/ Return
    \/ SearchFunctions
    \/ FindPrinciplesByDomain
    \/ FindDerivedRules
    \/ BuildInferenceChain

BuildDefsLv1 ==
    [dir : {lv1}, file : {"principles.scm"}, name : {<<"p">>}, docstring : {<<>>},
     cross_references : {<<>>}, is_principle : {TRUE}]
BuildDefsCiv ==
    [dir : {civ}, file : {"contract.scm"}, name : {<<"t">>}, docstring : {<<>>},
     cross_references : {<<>>, <<<<"p">>>>}, is_principle : {FALSE}]

InitBuild ==
    /\ dirs = {lv1, civ}
    /\ disk \in Corpora(BuildDefsLv1, BuildDefsCiv, MaxDefs)
    /\ InitCommon

SpecBuild == InitBuild /\ [][NextBuild]_vars

----------------------------------------------------------------------------
(* FrameworkValidator *)

MaxValidations == 2

LowerLetters ==
    {"a", "b", "c", "d", "e", "f", "g", "h", "i", "j", "k", "l", "m",
     "n", "o", "p", "q", "r", "s", "t", "u", "v", "w", "x", "y", "z"}
Digits == {"0", "1", "2", "3", "4", "5", "6", "7", "8", "9"}
Whitespace == {" ", "\t", "\n", "\r"}

\* l[:n]
Take(l, n) == SubSeq(l, 1, IF Len(l) < n THEN Len(l) ELSE n)

RECURSIVE Strip(_)
\* str.strip()
Strip(str) ==
    IF str = <<>> THEN <<>>
    ELSE IF Head(str) \in Whitespace THEN Strip(Tail(str))
    ELSE IF str[Len(str)] \in Whitespace THEN Strip(SubSeq(str, 1, Len(str) - 1))
    ELSE str

Warning(check, message) ==
    [check |-> check, severity |-> "warning", message |-> message]
Error(check, message) ==
    [check |-> check, severity |-> "error", message |-> message]
\* the info entries are appended without a severity
Info(check, message) == [check |-> check, message |-> message]

\* for item in items[:5]: warnings.append(...); if len(items) > 5: one more
SampleWarnings(rp, check, messages, more) ==
    LET first == Take(messages, 5)
    IN [rp EXCEPT !.warnings =
          @ \o [i \in DOMAIN first |-> Warning(check, first[i])]
            \o (IF Len(messages) > 5
                THEN <<Warning(check, <<more, Len(messages) - 5>>)>>
                ELSE <<>>)]

expected_frameworks == <<lv1, civ, cri, con, adm, lab, env, cst, int>>

RECURSIVE StructureLoop(_, _, _)
StructureLoop(ix, codes, rp) ==
    IF codes = <<>> THEN rp
    ELSE LET code == Head(codes)
             after ==
                IF ~DictHas(ix.frameworks, code)
                THEN [rp EXCEPT !.errors =
                        Append(@, Error("structure", <<"Missing framework", code>>))]
                ELSE LET framework == DictGet(ix.frameworks, code)
                     IN IF framework.files = <<>>
                        THEN [rp EXCEPT !.warnings =
                                Append(@, Warning("structure",
                                                  <<"No .scm files found in framework", code>>))]
                        ELSE [rp EXCEPT !.info =
                                Append(@, Info("structure",
                                               <<"Framework files functions", code,
                                                 Len(framework.files),
                                                 framework.function_count>>))]
         IN StructureLoop(ix, Tail(codes), after)

check_framework_structure(ix, rp) == StructureLoop(ix, expected_frameworks, rp)

\* the references check_cross_references passes over
SkippedRefs == {<<"l", "e", "v", "e", "l">>, <<"l", "1">>, <<"l", "2">>, <<"1">>, <<"2">>}

RECURSIVE InvalidRefsOf(_, _, _)
InvalidRefsOf(ix, func_name, refs) ==
    IF refs = <<>> THEN <<>>
    ELSE LET ref == Head(refs)
             rest == InvalidRefsOf(ix, func_name, Tail(refs))
         IN IF Lower(ref) \in SkippedRefs THEN rest
            ELSE IF ~DictHas(ix.principle_index, ref) /\ ~DictHas(ix.function_index, ref)
                 THEN <<[function |-> func_name, invalid_ref |-> ref]>> \o rest
                 ELSE rest

RECURSIVE InvalidRefs(_, _)
InvalidRefs(ix, items) ==
    IF items = <<>> THEN <<>>
    ELSE InvalidRefsOf(ix, Head(items).k, Head(items).v.cross_references)
         \o InvalidRefs(ix, Tail(items))

check_cross_references(ix, rp) ==
    LET invalid_refs == InvalidRefs(ix, ix.function_index)
    IN IF invalid_refs # <<>>
       THEN SampleWarnings(rp, "cross_references",
                [i \in DOMAIN invalid_refs |->
                    <<"references unknown principle", invalid_refs[i].function,
                      invalid_refs[i].invalid_ref>>],
                "more invalid references")
       ELSE [rp EXCEPT !.info =
                Append(@, Info("cross_references", <<"All cross-references valid">>))]

\* re.match(r'^[a-z][a-z0-9-]*\??$', name)
KebabCase(name) ==
    /\ name # <<>>
    /\ name[1] \in LowerLetters
    /\ LET body == IF Len(name) >= 2 /\ name[Len(name)] = "?"
                   THEN SubSeq(name, 1, Len(name) - 1) ELSE name
       IN \A i \in 2..Len(body) : body[i] \in LowerLetters \cup Digits \cup {"-"}

predicate_words == {
    <<"i", "s">>, <<"h", "a", "s">>, <<"c", "a", "n">>, <<"v", "a", "l", "i", "d">>,
    <<"e", "x", "i", "s", "t", "s">>,
    <<"a", "p", "p", "l", "i", "c", "a", "b", "l", "e">> }

RECURSIVE NamingIssues(_)
NamingIssues(items) ==
    IF items = <<>> THEN <<>>
    ELSE LET name == Head(items).v.name
         IN (IF ~KebabCase(name)
             THEN <<<<Head(items).k, "Non-standard naming (expected kebab-case)">>>>
             ELSE <<>>)
            \o (IF (\E word \in predicate_words : Contains(word, name))
                   /\ (name = <<>> \/ name[Len(name)] # "?")
                THEN <<<<Head(items).k, "Predicate function should end with ?">>>>
                ELSE <<>>)
            \o NamingIssues(Tail(items))

check_naming_conventions(ix, rp) ==
    LET issues == NamingIssues(ix.function_index)
    IN IF issues # <<>>
       THEN SampleWarnings(rp, "naming", issues, "more naming issues")
       ELSE [rp EXCEPT !.info =
                Append(@, Info("naming", <<"All function names follow conventions">>))]

\* the percentage as printed with one decimal, in tenths of a percent
PercentTenths(part, whole) ==
    LET x == 1000 * part
        quot == x \div whole
        rest == x % whole
    IN IF 2 * rest < whole THEN quot
       ELSE IF 2 * rest > whole THEN quot + 1
       ELSE IF quot % 2 = 0 THEN quot ELSE quot + 1

check_docstrings(ix, rp) ==
    LET missing_docs ==
            SelectSeq(ix.function_index,
                      LAMBDA it : it.v.docstring = <<>> \/ Len(Strip(it.v.docstring)) < 10)
    IN IF missing_docs # <<>>
       THEN [rp EXCEPT !.warnings =
                Append(@, Warning("docstrings",
                    <<"functions lack adequate docstrings", Len(missing_docs),
                      PercentTenths(Len(missing_docs), Len(ix.function_index))>>))]
       ELSE [rp EXCEPT !.info =
                Append(@, Info("docstrings", <<"All functions have docstrings">>))]

RECURSIVE SumLens(_)
SumLens(d) == IF d = <<>> THEN 0 ELSE Len(Head(d).v) + SumLens(Tail(d))

check_domain_coverage(ix, rp) ==
    IF ix.domain_index = <<>>
    THEN [rp EXCEPT !.errors = Append(@, Error("domains", <<"No domains found">>))]
    ELSE LET empty == SelectSeq(ix.domain_index, LAMBDA it : Len(it.v) = 0)
         IN [rp EXCEPT
               !.warnings = @ \o [i \in DOMAIN empty |->
                                    Warning("domains", <<"Domain has no functions", empty[i].k>>)],
               !.info = Append(@, Info("domains",
                            <<"domains covering function references",
                              Len(ix.domain_index), SumLens(ix.domain_index)>>))]

RECURSIVE CountRefs(_, _, _)
\* for ref in cross_refs: if ref in principle_index: principle_usage[ref] += 1
CountRefs(ix, usage, refs) ==
    IF refs = <<>> THEN usage
    ELSE CountRefs(ix,
                   IF DictHas(ix.principle_index, Head(refs))
                   THEN DictSet(usage, Head(refs), DictGetOr(usage, Head(refs), 0) + 1)
                   ELSE usage,
                   Tail(refs))

RECURSIVE PrincipleUsage(_, _, _)
PrincipleUsage(ix, usage, items) ==
    IF items = <<>> THEN usage
    ELSE PrincipleUsage(ix,
                        IF Head(items).v.framework = lv1 THEN usage
                        ELSE CountRefs(ix, usage, Head(items).v.cross_references),
                        Tail(items))

RECURSIVE InsertByCount(_, _)
\* descending counts; equal counts keep their order (sorted(..., reverse=True))
InsertByCount(sorted, x) ==
    IF sorted = <<>> THEN <<x>>
    ELSE IF Head(sorted).v >= x.v
         THEN <<Head(sorted)>> \o InsertByCount(Tail(sorted), x)
         ELSE <<x>> \o sorted

RECURSIVE SortByCount(_, _)
SortByCount(sorted, todo) ==
    IF todo = <<>> THEN sorted
    ELSE SortByCount(InsertByCount(sorted, Head(todo)), Tail(todo))

check_principle_linkages(ix, rp) ==
    LET principle_usage == PrincipleUsage(ix, <<>>, ix.function_index)
        unused_principles ==
            SelectSeq(ix.principle_index, LAMBDA it : ~DictHas(principle_usage, it.k))
        top_principles == Take(SortByCount(<<>>, principle_usage), 5)
    IN [rp EXCEPT
          !.warnings =
              IF unused_principles # <<>>
              THEN Append(@, Warning("linkages",
                      <<"Level 1 principles not referenced by any rules",
                        Len(unused_principles)>>))
              ELSE @,
          !.info =
              IF principle_usage # <<>>
              THEN Append(@, Info("linkages",
                      <<"Most referenced principles",
                        [i \in DOMAIN top_principles |->
                            <<top_principles[i].k, top_principles[i].v>>]>>))
              ELSE @]

\* _generate_summary: the counts and the first five messages of each list
generate_summary(rp) ==
    LET part(l) == <<Len(l), [i \in DOMAIN Take(l, 5) |-> l[i].message]>>
    IN [errors |-> part(rp.errors), warnings |-> part(rp.warnings),
        info |-> part(rp.info)]

\* the six checks of validate_all, in order, on the validator's three lists
RunChecks(ix, rp) ==
    check_principle_linkages(ix,
      check_domain_coverage(ix,
        check_docstrings(ix,
          check_naming_conventions(ix,
            check_cross_references(ix,
              check_framework_structure(ix, rp))))))

\* mutant of validate_all: warnings count against passed as well
validate_all_strict(ix, rp) ==
    LET after == RunChecks(ix, rp)
    IN [passed |-> Len(after.errors) = 0 /\ Len(after.warnings) = 0,
        total_checks |-> Len(after.errors) + Len(after.warnings) + Len(after.info),
        errors |-> after.errors,
        warnings |-> after.warnings,
        info |-> after.info,
        summary |-> generate_summary(after)]

validate_all(ix, rp) ==
    LET after == RunChecks(ix, rp)
    IN [passed |-> Len(after.errors) = 0,
        total_checks |-> Len(after.errors) + Len(after.warnings) + Len(after.info),
        errors |-> after.errors,
        warnings |-> after.warnings,
        info |-> after.info,
        summary |-> generate_summary(after)]

\* FrameworkValidator.validate_all, on a validator whose index is the one built
\* over the corpus
ValidateAll ==
    /\ index # None
    /\ res = Idle
    /\ validations < MaxValidations
    /\ LET results == validate_all(index[1],
                         [errors |-> errors, warnings |-> warnings, info |-> info])
       IN /\ errors' = results.errors
          /\ warnings' = results.warnings
          /\ info' = results.info
          /\ res' = [op |-> "validate_all", out |-> results]
    /\ validations' = validations + 1
    /\ UNCHANGED <<hyper, dirs, disk, index, fresh>>

\* mutant of NewList: the list is a class attribute, shared by every validator
SharedList(previous) == previous

\* self.errors = [] in __init__: a list of the new validator's own
NewList(previous) == <<>>

\* validator2 = FrameworkValidator(base_path), over the same corpus, replacing
\* a validator that has run
NewValidator ==
    /\ index # None
    /\ res = Idle
    /\ validations > 0
    /\ index' = Some(NewFrameworkIndex(dirs, disk))
    /\ errors' = NewList(errors)
    /\ warnings' = NewList(warnings)
    /\ info' = NewList(info)
    /\ validations' = 0
    /\ UNCHANGED <<hyper, dirs, disk, fresh, res>>

NextValidate ==
    \/ Construct
    \/ Return
    \/ ValidateAll
    \/ NewValidator

ValDoc == <<"a", " ", "p", "r", "i", "n", "c", "i", "p", "l", "e">>

\* one documented principle in lv1; rules t and is in two files of civ
ValDefsLv1 ==
    [dir : {lv1}, file : {"principles.scm"}, name : {<<"p">>}, docstring : {ValDoc},
     cross_references : {<<>>}, is_principle : {TRUE}]
ValDefsCiv ==
    [dir : {civ}, file : {"contract.scm", "delict.scm"},
     name : {<<"t">>, <<"i", "s">>}, docstring : {<<>>},
     cross_references : {<<>>, <<<<"p">>>>}, is_principle : {FALSE}]

InitValidate ==
    /\ dirs \in {AllCodes, {lv1, civ}}
    /\ disk \in Corpora(ValDefsLv1, ValDefsCiv, MaxDefs)
    /\ InitCommon

SpecValidate == InitValidate /\ [][NextValidate]_vars

\* rules t and u of civ referring to the principle p, to the rule t, to a name
\* z that nothing defines, or to "L1"
CrossRefDefsCiv ==
    [dir : {civ}, file : {"contract.scm"}, name : {<<"t">>, <<"u">>}, docstring : {<<>>},
     cross_references : {<<>>, <<<<"p">>>>, <<<<"t">>>>, <<<<"z">>>>, <<<<"L", "1">>>>},
     is_principle : {FALSE}]

InitCrossRefs ==
    /\ dirs = AllCodes
    /\ disk \in Corpora(ValDefsLv1, CrossRefDefsCiv, MaxDefs)
    /\ InitCommon

SpecCrossRefs == InitCrossRefs /\ [][NextValidate]_vars

----------------------------------------------------------------------------
(* Principles and rules of the two levels, and the statistics *)

\* definitions of lv1 and of civ, each tagged 'Level 1' or not; rules of civ
\* referring to p or to nothing
KindDefsLv1 ==
    [dir : {lv1}, file : {"principles.scm"}, name : {<<"p">>, <<"q">>}, docstring : {<<>>},
     cross_references : {<<>>}, is_principle : BOOLEAN]
KindDefsCiv ==
    [dir : {civ}, file : {"contract.scm"}, name : {<<"p">>, <<"t">>}, docstring : {<<>>},
     cross_references : {<<>>, <<<<"p">>>>}, is_principle : BOOLEAN]

InitKinds ==
    /\ dirs = {lv1, civ, cri}
    /\ disk \in Corpora(KindDefsLv1, KindDefsCiv, MaxDefs)
    /\ InitCommon

NextKinds ==
    \/ Construct
    \/ Return
    \/ GetFrameworkStats
    \/ RulesByFramework
    \/ RulesByDomain
    \/ FindDerivedRules

SpecKinds == InitKinds /\ [][NextKinds]_vars

----------------------------------------------------------------------------
(* Files that cannot be decoded *)

\* definitions of two files of civ and of one of lv1, some of them holding
\* bytes that are not UTF-8
DecodeDefsLv1 ==
    [dir : {lv1}, file : {"principles.scm"}, name : {<<"p">>}, docstring : {<<>>},
     cross_references : {<<>>}, is_principle : {TRUE}, undecodable : BOOLEAN]
DecodeDefsCiv ==
    [dir : {civ}, file : {"contract.scm", "delict.scm"}, name : {<<"t">>, <<"u">>},
     docstring : {<<>>}, cross_references : {<<>>}, is_principle : {FALSE},
     undecodable : BOOLEAN]

InitDecode ==
    /\ dirs = {lv1, civ}
    /\ disk \in Corpora(DecodeDefsLv1, DecodeDefsCiv, MaxDefs)
    /\ InitCommon

NextDecode ==
    \/ Construct
    \/ Return
    \/ RulesByFramework
    \/ PrinciplesGet

SpecDecode == InitDecode /\ [][NextDecode]_vars

----------------------------------------------------------------------------
(* The ChainLex facade and the snapshot *)

ApiQueries == {<<"a">>, <<"x">>}
ApiDomains == {None, Some("contract"), Some("criminal")}

\* chainlex.search(query, domain)
ChainLexSearch ==
    /\ index # None
    /\ res = Idle
    /\ \E query \in ApiQueries, domain \in ApiDomains :
          res' = [op |-> "search", query |-> query, domain |-> domain,
                  out |-> chainlex_search(index[1], query, domain)]
    /\ UNCHANGED <<hyper, dirs, disk, index, fresh, validator>>

\* index.export_index(output_file)
ExportIndex ==
    /\ index # None
    /\ res = Idle
    /\ res' = [op |-> "export_index", written |-> export_index(index[1])]
    /\ index' = Some(AfterExportIndex(index[1]))
    /\ UNCHANGED <<hyper, dirs, disk, fresh, validator>>

\* the file export_index wrote is reloaded
Reload ==
    /\ res.op = "export_index"
    /\ res' = [op |-> "reload", out |-> reload(res.written)]
    /\ UNCHANGED <<hyper, dirs, disk, index, fresh, validator>>

NextApi ==
    \/ Construct
    \/ Return
    \/ ChainLexSearch
    \/ ExportIndex
    \/ Reload

\* principles a, B of lv1; rules ab, t of civ, with or without a docstring
\* that holds "a" and with or without a reference to the principle a
ApiDefsLv1 ==
    [dir : {lv1}, file : {"principles.scm"}, name : {<<"a">>, <<"B">>}, docstring : {<<>>},
     cross_references : {<<>>}, is_principle : {TRUE}]
ApiDefsCiv ==
    [dir : {civ}, file : {"contract.scm"}, name : {<<"a", "b">>, <<"t">>},
     docstring : {<<>>, <<"x", "A">>}, cross_references : {<<>>, <<<<"a">>>>},
     is_principle : {FALSE}]

InitApi ==
    /\ dirs = {lv1, civ}
    /\ disk \in Corpora(ApiDefsLv1, ApiDefsCiv, MaxDefs)
    /\ InitCommon

SpecApi == InitApi /\ [][NextApi]_vars

----------------------------------------------------------------------------
(* Python floats: IEEE 754 binary64, round to nearest, ties to even.       *)
(* A natural number is the sequence of its base-2^13 limbs, lowest first,  *)
(* without high zeros; a positive float is [m, e], worth m * 2^e, with m   *)
(* of 53 bits.                                                             *)

LimbBits == 13
Base == 2^LimbBits

RECURSIVE LimbsOf(_)
LimbsOf(n) == IF n = 0 THEN <<>> ELSE <<n % Base>> \o LimbsOf(n \div Base)

RECURSIVE NatOf(_)
\* the number a short limb sequence stands for
NatOf(b) == IF b = <<>> THEN 0 ELSE Head(b) + Base * NatOf(Tail(b))

RECURSIVE TrimLimbs(_)
TrimLimbs(b) ==
    IF b = <<>> THEN <<>>
    ELSE IF b[Len(b)] = 0 THEN TrimLimbs(SubSeq(b, 1, Len(b) - 1))
    ELSE b

\* the number of bits of n > 0
NumBits(n) ==
    LimbBits * (Len(n) - 1)
    + CHOOSE k \in 1..LimbBits : 2^(k - 1) <= n[Len(n)] /\ n[Len(n)] < 2^k

\* bit i of n, the lowest being bit 1
Bit(n, i) ==
    LET j == (i - 1) \div LimbBits + 1
    IN IF j > Len(n) THEN 0 ELSE (n[j] \div 2^((i - 1) % LimbBits)) % 2

\* n \div 2^d
ShiftRight(n, d) ==
    LET q == d \div LimbBits
        r == d % LimbBits
    IN TrimLimbs([j \in 1..(Len(n) - q) |->
          (n[q + j] \div 2^r)
          + (IF q + j + 1 <= Len(n) THEN (n[q + j + 1] % 2^r) * 2^(LimbBits - r) ELSE 0)])

RECURSIVE Increment(_)
Increment(n) ==
    IF n = <<>> THEN <<1>>
    ELSE IF Head(n) + 1 < Base THEN <<Head(n) + 1>> \o Tail(n)
    ELSE <<0>> \o Increment(Tail(n))

RECURSIVE ColumnSum(_, _, _, _)
\* the sum of a[i] * b[k + 1 - i] over the i from `i` on
ColumnSum(a, b, k, i) ==
    IF i > Len(a) THEN 0
    ELSE (IF k + 1 - i \in DOMAIN b THEN a[i] * b[k + 1 - i] ELSE 0)
         + ColumnSum(a, b, k, i + 1)

RECURSIVE Carry(_, _)
Carry(columns, carry) ==
    IF columns = <<>> THEN LimbsOf(carry)
    ELSE LET s == Head(columns) + carry
         IN <<s % Base>> \o Carry(Tail(columns), s \div Base)

\* a * b
MulLimbs(a, b) ==
    IF a = <<>> \/ b = <<>> THEN <<>>
    ELSE TrimLimbs(Carry([k \in 1..(Len(a) + Len(b) - 1) |-> ColumnSum(a, b, k, 1)], 0))

RECURSIVE DivLimbs(_, _, _)
\* long division of the limbs `high` (highest first) by the small number d,
\* with remainder rem so far: <<quotient limbs (highest first), remainder>>
DivLimbs(high, d, rem) ==
    IF high = <<>> THEN <<<<>>, rem>>
    ELSE LET r == Base * rem + Head(high)
             rest == DivLimbs(Tail(high), d, r % d)
         IN << <<r \div d>> \o rest[1], rest[2] >>

Reverse(s) == [i \in 1..Len(s) |-> s[Len(s) + 1 - i]]

\* the precision of a binary64 significand
MantissaBits == 53

\* n / 2^drop (drop >= 1), rounded to nearest, ties to even; sticky tells that
\* bits were already lost below n
RoundShift(n, drop, sticky) ==
    LET kept == ShiftRight(n, drop)
        below == sticky \/ \E i \in 1..(drop - 1) : Bit(n, i) = 1
    IN IF Bit(n, drop) = 1 /\ (below \/ Bit(kept, 1) = 1) THEN Increment(kept) ELSE kept

\* the float nearest to n * 2^e, where n has more than 53 bits
Normal(n, e, sticky) ==
    LET drop == NumBits(n) - MantissaBits
        m == RoundShift(n, drop, sticky)
    IN IF NumBits(m) > MantissaBits
       THEN [m |-> ShiftRight(m, 1), e |-> e + drop + 1]
       ELSE [m |-> m, e |-> e + drop]

\* the float a decimal literal num/den (0 < num <= den < 1000) denotes
Literal(num, den) ==
    LET scaled == [i \in 1..5 |-> 0] \o LimbsOf(num)
        qr == DivLimbs(Reverse(scaled), den, 0)
    IN Normal(TrimLimbs(Reverse(qr[1])), 0 - 5 * LimbBits, qr[2] # 0)

\* x * y on floats
FMul(x, y) == Normal(MulLimbs(x.m, y.m), x.e + y.e, FALSE)

RECURSIVE FPow(_, _)
\* x ** n for a small n >= 0 (the library's pow and the repeated product
\* differ by less than the rounding to four places can see)
FPow(x, n) == IF n = 0 THEN Literal(1, 1) ELSE FMul(FPow(x, n - 1), x)

\* round(x, 4) for 0 < x <= 1, in ten-thousandths: the decimal nearest to the
\* exact value of the float, ties to even
Round4(x) ==
    LET n == MulLimbs(x.m, LimbsOf(10000))
        drop == 0 - x.e
        q == NatOf(ShiftRight(n, drop))
        below == \E i \in 1..(drop - 1) : Bit(n, i) = 1
    IN IF Bit(n, drop) = 1 /\ (below \/ q % 2 = 1) THEN q + 1 ELSE q

----------------------------------------------------------------------------
(* InferenceAPI *)

\* inference_types is None or a list: `if inference_types:`
Truthy(opt) == opt # None /\ opt[1] # <<>>

\* Default inference factors
factors ==
    << [k |-> "deductive", v |-> Literal(95, 100)],
       [k |-> "inductive", v |-> Literal(80, 100)],
       [k |-> "abductive", v |-> Literal(70, 100)],
       [k |-> "analogical", v |-> Literal(65, 100)] >>

\* mutant of Factor: a type the table lacks leaves the confidence as it is
FactorUnknownOne(inf_type) == DictGetOr(factors, inf_type, Literal(1, 1))

\* factors.get(inf_type, 0.95)
Factor(inf_type) == DictGetOr(factors, inf_type, Literal(95, 100))

RECURSIVE ApplyFactors(_, _)
\* for inf_type in inference_types: confidence *= factors.get(inf_type, 0.95)
ApplyFactors(c, inference_types) ==
    IF inference_types = <<>> THEN c
    ELSE ApplyFactors(FMul(c, Factor(Head(inference_types))), Tail(inference_types))

\* mutant of confidence: a chain without an edge counts as no chain
confidenceShortIsZero(chain, inference_types) ==
    IF Len(chain) < 2 THEN 0
    ELSE Round4(IF Truthy(inference_types)
                THEN ApplyFactors(Literal(1, 1), inference_types[1])
                ELSE FMul(Literal(1, 1), FPow(Literal(95, 100), Len(chain) - 1)))

\* InferenceAPI.confidence, in ten-thousandths (round returns the float
\* nearest to that many ten-thousandths)
confidence(chain, inference_types) ==
    IF chain = <<>> THEN 0
    ELSE Round4(IF Truthy(inference_types)
                THEN ApplyFactors(Literal(1, 1), inference_types[1])
                ELSE FMul(Literal(1, 1), FPow(Literal(95, 100), Len(chain) - 1)))

\* str() of a small natural number
RECURSIVE IntStr(_)
IntStr(n) ==
    LET digit == CASE n % 10 = 0 -> "0" [] n % 10 = 1 -> "1" [] n % 10 = 2 -> "2"
                   [] n % 10 = 3 -> "3" [] n % 10 = 4 -> "4" [] n % 10 = 5 -> "5"
                   [] n % 10 = 6 -> "6" [] n % 10 = 7 -> "7" [] n % 10 = 8 -> "8"
                   [] OTHER -> "9"
    IN IF n < 10 THEN <<digit>> ELSE IntStr(n \div 10) \o <<digit>>

unknown == <<"u", "n", "k", "n", "o", "w", "n">>

\* f"Level {level}: {name} ({node_type})", piece by piece
NodeLine(node) ==
    LET level == IF "level" \in DOMAIN node THEN IntStr(node.level) ELSE unknown
        name == IF "node" \in DOMAIN node THEN node.node
                ELSE IF "name" \in DOMAIN node THEN node.name ELSE unknown
        node_type == IF "type" \in DOMAIN node THEN node.type ELSE "unknown"
    IN <<"Level ", level, ": ", name, " (", node_type, ")">>

\* the arrow line; the down arrow of the source is written |
ArrowLine == <<"   | (inference)">>

RECURSIVE ExplainLoopArrowAlways(_, _, _)
\* mutant of ExplainLoop: the arrow follows every node, the last one too
ExplainLoopArrowAlways(chain, i, explanation) ==
    IF i >= Len(chain) THEN explanation
    ELSE ExplainLoopArrowAlways(chain, i + 1,
            Append(Append(explanation, NodeLine(chain[i + 1])), ArrowLine))

RECURSIVE ExplainLoop(_, _, _)
\* for i, node in enumerate(chain), from index i on
ExplainLoop(chain, i, explanation) ==
    IF i >= Len(chain) THEN explanation
    ELSE LET with_node == Append(explanation, NodeLine(chain[i + 1]))
         IN ExplainLoop(chain, i + 1,
                IF i < Len(chain) - 1 THEN Append(with_node, ArrowLine) ELSE with_node)

RECURSIVE Join(_, _)
\* sep.join(lines): the lines with sep between each two
Join(sep, lines) ==
    IF lines = <<>> THEN <<>>
    ELSE IF Len(lines) = 1 THEN lines
    ELSE <<Head(lines), sep>> \o Join(sep, Tail(lines))

\* InferenceAPI.explain
explain(chain) ==
    IF chain = <<>> THEN <<<<"No inference chain found">>>>
    ELSE Join(<<"\n">>, ExplainLoop(chain, 0, <<>>))

MaxChain == 3
MaxTypes == 3

\* chain nodes: as build_inference_chain makes them, and with keys missing
NodeKinds ==
    { [node |-> <<"p">>, type |-> "principle", level |-> 1],
      [name |-> <<"t">>, level |-> 2],
      [framework |-> civ] }

TypeNames == {"deductive", "inductive", "abductive", "analogical", "other"}
TypeArgs == {None} \cup {Some(l) : l \in UNION {SeqsOfLen(TypeNames, n) : n \in 0..MaxTypes}}

\* the chains the index gives for the name arguments
IndexChains(ix) ==
    {c[1] : c \in {build_inference_chain(ix, s, e) : s \in NameArgs, e \in NameArgs}
                  \ {None}}

ConfidenceChains(ix) ==
    IndexChains(ix)
    \cup UNION {SeqsOfLen({[node |-> <<"p">>, type |-> "principle", level |-> 1]}, n) :
                n \in 0..MaxChain}

ExplainChains(ix) ==
    IndexChains(ix) \cup UNION {SeqsOfLen(NodeKinds, n) : n \in 0..MaxChain}

\* api.inference.confidence(chain, inference_types)
Confidence ==
    /\ index # None
    /\ res = Idle
    /\ \E chain \in ConfidenceChains(index[1]), inference_types \in TypeArgs :
          res' = [op |-> "confidence", chain |-> chain,
                  inference_types |-> inference_types,
                  out |-> confidence(chain, inference_types)]
    /\ UNCHANGED <<hyper, dirs, disk, index, fresh, validator>>

\* api.inference.explain(chain)
Explain ==
    /\ index # None
    /\ res = Idle
    /\ \E chain \in ExplainChains(index[1]) :
          res' = [op |-> "explain", chain |-> chain, out |-> explain(chain)]
    /\ UNCHANGED <<hyper, dirs, disk, index, fresh, validator>>

NextInference ==
    \/ Construct
    \/ Return
    \/ BuildInferenceChain
    \/ Confidence
    \/ Explain

\* no definition, or one rule of civ
InferenceCorpora == {<<>>} \cup {<<d>> : d \in BuildDefsCiv}

InitInference ==
    /\ dirs = {lv1, civ}
    /\ disk \in InferenceCorpora
    /\ InitCommon

SpecInference == InitInference /\ [][NextInference]_vars

----------------------------------------------------------------------------
(* EnhancedHypergraphAPI.  The graph is the networkx graph of the pickle: a *)
(* DiGraph or a MultiDiGraph (hypergraph/analyze_edge_weights.py reads the  *)
(* same file with edges(keys=True), which only a multigraph accepts).       *)
(* g.nodes maps a node id to its attributes, g.edges lists the edges in     *)
(* insertion order, g.node_index maps a node name to its id.                *)

\* self.graph is not None
is_available == graph # None

RECURSIVE Neighbours(_, _)
\* the successors of u, each once, in the order in which they were first added
Neighbours(edges, u) ==
    IF edges = <<>> THEN <<>>
    ELSE LET rest == Neighbours(Tail(edges), u)
             e == Head(edges)
         IN IF e.u = u THEN <<e.v>> \o SelectSeq(rest, LAMBDA w : w # e.v) ELSE rest

\* the edges from u to v, in key order
EdgesBetween(g, u, v) == SelectSeq(g.edges, LAMBDA e : e.u = u /\ e.v = v)

RECURSIVE Repeated(_, _)
\* every neighbour as many times as there are edges to it
Repeated(g, pairs) ==
    IF pairs = <<>> THEN <<>>
    ELSE [i \in DOMAIN EdgesBetween(g, Head(pairs)[1], Head(pairs)[2]) |-> Head(pairs)[2]]
         \o Repeated(g, Tail(pairs))

\* what the path enumeration iterates over at u: G[u] on a DiGraph, the
\* targets of G.edges(u) on a MultiDiGraph
Children(g, u) ==
    LET nb == Neighbours(g.edges, u)
    IN IF g.multigraph THEN Repeated(g, [i \in DOMAIN nb |-> <<u, nb[i]>>]) ELSE nb

\* self.graph.has_edge(u, v)
has_edge(g, u, v) == EdgesBetween(g, u, v) # <<>>

\* self.graph.nodes[node_id].get('name', node_id)
NodeName(g, node_id) ==
    LET data == DictGet(g.nodes, node_id)
    IN IF "name" \in DOMAIN data THEN data.name ELSE node_id

\* self.node_index.get(name), None when the name is unknown
NodeId(g, name) == IF DictHas(g.node_index, name) THEN Some(DictGet(g.node_index, name)) ELSE None

\* mutant of AlreadyVisited: a node on the path may be entered again
NeverVisited(child, visited) == FALSE

\* child in visited
AlreadyVisited(child, visited) == InList(child, visited)

\* list(visited) without the item popitem removes
PopItem(visited) == SubSeq(visited, 1, Len(visited) - 1)

\* how often target is among the children left at the depth limit: as often
\* as it occurs on a MultiDiGraph, once if it occurs on a DiGraph
TargetCount(g, target, children) ==
    LET n == Len(SelectSeq(children, LAMBDA c : c = target))
    IN IF g.multigraph THEN n ELSE IF n > 0 THEN 1 ELSE 0

\* one iteration of the loop of nx.all_simple_paths (depth-first, one target):
\* s is [visited, stack, paths], the stack holding the children still to try
\* at each depth
SimplePathsStep(g, s, target, cutoff) ==
    LET children == s.stack[Len(s.stack)]
        below == SubSeq(s.stack, 1, Len(s.stack) - 1)
    IN IF children = <<>>
       THEN [s EXCEPT !.stack = below, !.visited = PopItem(@)]
       ELSE LET child == Head(children)
                popped == Append(below, Tail(children))
            IN IF Len(s.visited) < cutoff
               THEN IF AlreadyVisited(child, s.visited)
                    THEN [s EXCEPT !.stack = popped]
                    ELSE IF child = target
                    THEN [s EXCEPT !.stack = popped,
                                   !.paths = Append(@, Append(s.visited, child))]
                    ELSE [s EXCEPT !.stack = Append(popped, Children(g, child)),
                                   !.visited = Append(@, child)]
               ELSE [s EXCEPT
                       !.stack = below,
                       !.visited = PopItem(@),
                       !.paths = @ \o
                           (IF AlreadyVisited(target, s.visited) THEN <<>>
                            ELSE [i \in 1..TargetCount(g, target, children) |->
                                     Append(s.visited, target)])]

\* node_names of every path, lines 130-133
PathNames(g, paths) ==
    [i \in DOMAIN paths |-> [j \in DOMAIN paths[i] |-> NodeName(g, paths[i][j])]]

\* the factor table of compute_path_confidence
path_factors ==
    << [k |-> "deductive", v |-> Literal(95, 100)],
       [k |-> "inductive", v |-> Literal(80, 100)],
       [k |-> "abductive", v |-> Literal(70, 100)],
       [k |-> "analogical", v |-> Literal(65, 100)] >>

\* edge_data.get('inference_type', 'deductive') on edge_data = self.graph[u][v]:
\* the attributes of the edge on a DiGraph; on a MultiDiGraph the mapping from
\* the edge keys 0, 1, ... to the attributes, which has no key 'inference_type'
InferenceTypeOf(g, u, v) ==
    IF g.multigraph THEN "deductive"
    ELSE LET edge_data == EdgesBetween(g, u, v)[1].data
         IN IF "inference_type" \in DOMAIN edge_data
            THEN edge_data.inference_type ELSE "deductive"

RECURSIVE PathConfidenceLoop(_, _, _, _)
\* for i in range(len(path) - 1), from index i on
PathConfidenceLoop(g, path, i, c) ==
    IF i >= Len(path) - 1 THEN c
    ELSE LET node_id == NodeId(g, path[i + 1])
             next_id == NodeId(g, path[i + 2])
         IN PathConfidenceLoop(g, path, i + 1,
              IF node_id # None /\ next_id # None /\ has_edge(g, node_id[1], next_id[1])
              THEN FMul(c, DictGetOr(path_factors,
                                     InferenceTypeOf(g, node_id[1], next_id[1]),
                                     Literal(95, 100)))
              ELSE c)

\* EnhancedHypergraphAPI.compute_path_confidence, in ten-thousandths
compute_path_confidence(path) ==
    IF ~is_available \/ Len(path) < 2 THEN 0
    ELSE Round4(PathConfidenceLoop(graph[1], path, 0, Literal(1, 1)))

MaxLength == 3
MaxPath == 3

\* nodes a, b, c, d named A, B, C, D; no node is named Z
GraphNodes ==
    << [k |-> "a", v |-> [name |-> "A"]], [k |-> "b", v |-> [name |-> "B"]],
       [k |-> "c", v |-> [name |-> "C"]], [k |-> "d", v |-> [name |-> "D"]] >>
GraphNodeIndex ==
    << [k |-> "A", v |-> "a"], [k |-> "B", v |-> "b"],
       [k |-> "C", v |-> "c"], [k |-> "D", v |-> "d"] >>

Edge(u, v, data) == [u |-> u, v |-> v, data |-> data]
Untyped == [edge_type |-> "derives"]
EdgeData ==
    {Untyped, [inference_type |-> "inductive"], [inference_type |-> "analogical"],
     [inference_type |-> "bogus"]}

\* the cycle a -> b -> c -> a, the edge a -> d, and the edge b -> a
CandidateEdges ==
    << Edge("a", "b", Untyped), Edge("b", "c", Untyped), Edge("c", "a", Untyped),
       Edge("a", "d", Untyped), Edge("b", "a", Untyped) >>

\* the elements of seq whose position is in S, in order
Pick(seq, S) ==
    LET keep[i \in 0..Len(seq)] ==
            IF i = 0 THEN <<>>
            ELSE IF i \in S THEN Append(keep[i - 1], seq[i]) ELSE keep[i - 1]
    IN keep[Len(seq)]

Hypergraph(multigraph, edges) ==
    [multigraph |-> multigraph, nodes |-> GraphNodes, edges |-> edges,
     node_index |-> GraphNodeIndex]

\* any of the candidate edges, on a MultiDiGraph possibly with a -> d twice
PathGraphs ==
    { Hypergraph(x[1], Pick(CandidateEdges, x[2]) \o x[3]) :
        x \in { y \in BOOLEAN \X (SUBSET (1..Len(CandidateEdges)))
                       \X {<<>>, <<Edge("a", "d", Untyped)>>} :
                  y[3] # <<>> => (y[1] /\ 4 \in y[2]) } }

\* a -> b -> c with any data on the two edges
TypedGraphs ==
    { Hypergraph(m, <<Edge("a", "b", d1), Edge("b", "c", d2)>>) :
        m \in BOOLEAN, d1 \in EdgeData, d2 \in EdgeData }

GraphNames == {"A", "B", "D", "Z"}
PathArgs == UNION {SeqsOfLen({"A", "B", "C", "Z"}, n) : n \in 0..MaxPath}

\* find_all_paths(start, end, max_length), up to the first iteration of the
\* path enumeration
FindAllPaths ==
    /\ res = Idle
    /\ search = None
    /\ \E start \in GraphNames, end \in GraphNames, max_length \in 0..MaxLength :
        LET call == [op |-> "find_all_paths", start |-> start, end |-> end,
                     max_length |-> max_length]
            returns(out) == res' = call @@ [out |-> out] /\ search' = None
        IN IF ~is_available THEN returns(<<>>)
           ELSE LET g == graph[1]
                    start_id == NodeId(g, start)
                    end_id == NodeId(g, end)
                IN IF start_id = None \/ end_id = None THEN returns(<<>>)
                   ELSE IF start_id = end_id
                   \* nx.all_simple_paths with the source as target: nothing
                   \* up to networkx 3.1, the path of the source alone after
                   THEN \/ returns(<<>>)
                        \/ returns(PathNames(g, <<<<start_id[1]>>>>))
                   ELSE IF max_length < 1 THEN returns(<<>>)
                   ELSE /\ search' = Some([call |-> call, target |-> end_id[1],
                                           cutoff |-> max_length,
                                           visited |-> <<start_id[1]>>,
                                           stack |-> <<Children(g, start_id[1])>>,
                                           paths |-> <<>>])
                        /\ res' = res
    /\ UNCHANGED <<graph, dirs, disk, index, fresh, validator>>

\* one more iteration of the enumeration
PathStep ==
    /\ search # None
    /\ search[1].stack # <<>>
    /\ search' = Some(SimplePathsStep(graph[1], search[1], search[1].target,
                                      search[1].cutoff))
    /\ UNCHANGED <<graph, dirs, disk, index, fresh, res, validator>>

\* the enumeration is exhausted: find_all_paths returns the paths by name
PathsDone ==
    /\ search # None
    /\ search[1].stack = <<>>
    /\ res' = search[1].call @@ [out |-> PathNames(graph[1], search[1].paths)]
    /\ search' = None
    /\ UNCHANGED <<graph, dirs, disk, index, fresh, validator>>

ComputePathConfidence ==
    /\ res = Idle
    /\ search = None
    /\ \E path \in PathArgs :
          res' = [op |-> "compute_path_confidence", path |-> path,
                  out |-> compute_path_confidence(path)]
    /\ UNCHANGED <<hyper, dirs, disk, index, fresh, validator>>

NextGraph ==
    \/ FindAllPaths
    \/ PathStep
    \/ PathsDone
    \/ ComputePathConfidence
    \/ Return

\* an EnhancedHypergraphAPI whose pickle was absent, or held one of the graphs
InitGraph ==
    /\ dirs = {lv1, civ}
    /\ disk = <<>>
    /\ InitCaller
    /\ graph \in {None} \cup {Some(g) : g \in PathGraphs \cup TypedGraphs}
    /\ search = None

\* the path enumeration is a loop of the calling thread: it keeps running
SpecGraph ==
    InitGraph /\ [][NextGraph]_vars /\ WF_vars(PathStep) /\ WF_vars(PathsDone)

----------------------------------------------------------------------------
(* Vocabulary of the properties *)

\* the records of the index, in insertion order
IndexedRecords(ix) == [i \in DOMAIN ix.function_index |-> ix.function_index[i].v]
Range(l) == {l[i] : i \in DOMAIN l}

\* the "index" iterations of the build that made the index, in discovery order
Discovered == SelectSeq(BuildSteps(LoadFrameworks(framework_defs, dirs, disk), disk),
                        LAMBDA st : st.kind = "index")

SameDefinition(a, b) == a.code = b.code /\ a.func.name = b.func.name

\* some qualified name is defined more than once
DuplicateDefinitions ==
    \E i, j \in DOMAIN Discovered : i < j /\ SameDefinition(Discovered[i], Discovered[j])

FrameworkOf(code) == framework_defs[CHOOSE i \in DOMAIN framework_defs :
                                        framework_defs[i].code = code]

\* a search result without the relevance the search attached to it
WithoutRelevance(x) == [f \in (DOMAIN x) \ {"relevance"} |-> x[f]]

\* the position of a search result's record in the index
PositionOf(ix, x) ==
    CHOOSE i \in DOMAIN ix.function_index :
        ix.function_index[i].v = WithoutRelevance(x)

----------------------------------------------------------------------------
(* C1 *)

\* C1: find_derived_rules(P) returns exactly the indexed records whose
\* cross_references contain P: each of them is returned and every returned
\* record has P among its own cross_references.
C1_DerivedRulesExact ==
    res.op = "find_derived_rules" =>
        Range(res.out) =
            {r \in Range(IndexedRecords(index[1])) :
                InList(res.principle_name, r.cross_references)}

----------------------------------------------------------------------------
(* C2 *)

\* C2: when a qualified name is defined more than once, function_index holds
\* the first definition seen by the build; a later one does not overwrite it.
C2_FirstSeenKept ==
    index # None =>
        \A j \in DOMAIN Discovered :
            (\A i \in 1..(j - 1) : ~SameDefinition(Discovered[i], Discovered[j]))
            => DictGet(index[1].function_index,
                       FullName(Discovered[j].code, Discovered[j].func.name))
               = IndexedRecord(FrameworkOf(Discovered[j].code), Discovered[j].func)

----------------------------------------------------------------------------
(* C5, C6 *)

\* a domain filter was passed (the code reads None and "" as no filter)
FilterPassed(domain) == domain \notin {None, Some("")}

\* the record matches the query and the filter, as the claim words it
Matches(r, query, domain) ==
    /\ \/ Contains(Lower(query), Lower(r.name))
       \/ Contains(Lower(query), Lower(r.docstring))
    /\ FilterPassed(domain) => InList(domain[1], FrameworkOf(r.framework).domains)

\* C5: search_functions returns exactly the indexed records whose lower-cased
\* name or docstring contains the lower-cased query and, when a domain is
\* passed, whose framework declares it: each of them once, and no other record.
C5_SearchExact ==
    res.op = "search_functions" =>
        LET recs == IndexedRecords(index[1])
        IN /\ \A i \in DOMAIN recs :
                 Cardinality({j \in DOMAIN res.out :
                                 WithoutRelevance(res.out[j]) = recs[i]})
                 = IF Matches(recs[i], res.query, res.domain) THEN 1 ELSE 0
           /\ \A j \in DOMAIN res.out :
                 WithoutRelevance(res.out[j]) \in Range(recs)

\* C5 witness: a filtered search that kept a record matched by name and one
\* matched by docstring only, and left out a record of a framework without
\* the domain.
C5_Witness ==
    /\ res.op = "search_functions"
    /\ res.domain = Some("contract")
    /\ \E j \in DOMAIN res.out : Contains(Lower(res.query), Lower(res.out[j].name))
    /\ \E j \in DOMAIN res.out : ~Contains(Lower(res.query), Lower(res.out[j].name))
    /\ \E r \in Range(IndexedRecords(index[1])) :
          /\ r.framework = lv1
          /\ Contains(Lower(res.query), Lower(r.name))

\* 0: the name equals the query, 1: the name contains it, 2: only the docstring does
RelevanceClass(r, query) ==
    IF Lower(r.name) = Lower(query) THEN 0
    ELSE IF Contains(Lower(query), Lower(r.name)) THEN 1 ELSE 2

\* C6: in a search result exact name matches come before partial name matches,
\* which come before docstring-only matches, and results of one class keep the
\* insertion order of the index.
C6_RankingStable ==
    res.op = "search_functions" =>
        \A i, j \in DOMAIN res.out :
            i < j =>
                LET ci == RelevanceClass(res.out[i], res.query)
                    cj == RelevanceClass(res.out[j], res.query)
                IN /\ ci <= cj
                   /\ ci = cj => PositionOf(index[1], res.out[i])
                                 < PositionOf(index[1], res.out[j])

\* C6 witness: a result with all three classes where the sort moved a record
\* forward and two records of one class follow each other.
C6_Witness ==
    /\ res.op = "search_functions"
    /\ {RelevanceClass(res.out[j], res.query) : j \in DOMAIN res.out} = {0, 1, 2}
    /\ \E i, j \in DOMAIN res.out :
          /\ i < j
          /\ PositionOf(index[1], res.out[i]) > PositionOf(index[1], res.out[j])

----------------------------------------------------------------------------
(* C7 *)

RECURSIVE Dedup(_)
\* the first occurrences of a list, in order
Dedup(l) ==
    IF l = <<>> THEN <<>>
    ELSE LET init == Dedup(SubSeq(l, 1, Len(l) - 1))
         IN IF InList(l[Len(l)], init) THEN init ELSE Append(init, l[Len(l)])

RECURSIVE ReferencesOf(_, _)
\* the cross_references of the records listed under a domain, concatenated
ReferencesOf(ix, names) ==
    IF names = <<>> THEN <<>>
    ELSE DictGet(ix.function_index, Head(names)).cross_references
         \o ReferencesOf(ix, Tail(names))

\* the principles referenced under the domain, as first met among its records
FirstSeenPrinciples(ix, domain) ==
    Dedup(SelectSeq(ReferencesOf(ix, DictGetOr(ix.domain_index, domain, <<>>)),
                    LAMBDA n : DictHas(ix.principle_index, n)))

ResultNames == [i \in DOMAIN res.out |-> res.out[i].name]

\* C7 as claimed: find_principles_by_domain(d) returns the principles
\* referenced by the records under d, none twice, in the order in which they
\* are first met among the domain's records; [] for an unknown domain.
C7_FirstSeenOrder ==
    res.op = "find_principles_by_domain" =>
        ResultNames = FirstSeenPrinciples(index[1], res.domain)

\* C7 amended: the same names, none twice, but in the order of the principle
\* index (the order in which the principles were indexed); [] for an unknown
\* domain.
C7_PrincipleIndexOrder ==
    res.op = "find_principles_by_domain" =>
        LET ix == index[1]
            keys == [i \in DOMAIN ix.principle_index |-> ix.principle_index[i].k]
        IN /\ ResultNames =
                SelectSeq(keys, LAMBDA n :
                    InList(n, FirstSeenPrinciples(ix, res.domain)))
           /\ \A i, j \in DOMAIN ResultNames :
                 ResultNames[i] = ResultNames[j] => i = j
           /\ ~DictHas(ix.domain_index, res.domain) => res.out = <<>>

\* C7 witness: two principles returned in an order that is not the order in
\* which the domain's records mention them.
C7_Witness ==
    /\ res.op = "find_principles_by_domain"
    /\ Len(res.out) >= 2
    /\ ResultNames # FirstSeenPrinciples(index[1], res.domain)

----------------------------------------------------------------------------
(* C8, C9, C10 *)

\* some indexed record with local name t lists p among its cross_references
DirectReference(ix, p, t) ==
    \E r \in Range(IndexedRecords(ix)) : r.name = t /\ InList(p, r.cross_references)

\* C8: build_inference_chain(p, t) returns a chain only if a record named t
\* lists p; the chain is then the two nodes [p, t]; otherwise, also when p
\* reaches t through other records, it returns None.
C8_ChainOnlyDirect ==
    res.op = "build_inference_chain" =>
        IF DirectReference(index[1], res.start_principle, res.end_function)
        THEN res.out # None =>
                /\ Len(res.out[1]) = 2
                /\ res.out[1][1].node = res.start_principle
                /\ res.out[1][2].node = res.end_function
        ELSE res.out = None

\* C8 witness: p reaches t through q only, and the call returned None.
C8_Witness ==
    /\ res.op = "build_inference_chain"
    /\ res.out = None
    /\ ~DirectReference(index[1], res.start_principle, res.end_function)
    /\ \E m \in RefNames :
          /\ DirectReference(index[1], res.start_principle, m)
          /\ DirectReference(index[1], m, res.end_function)

\* C9: whenever some indexed record named t, in any framework and at any
\* position, lists p among its cross_references, build_inference_chain(p, t)
\* returns the chain and not None.
C9_ChainWheneverDirect ==
    res.op = "build_inference_chain" =>
        (DirectReference(index[1], res.start_principle, res.end_function)
            => res.out # None)

\* C10: the first node of a returned chain is a key of the principle index and
\* the last node is the requested target.
C10_ChainStartsAtPrinciple ==
    (res.op = "build_inference_chain" /\ res.out # None) =>
        /\ DictHas(index[1].principle_index, res.out[1][1].node)
        /\ res.out[1][Len(res.out[1])].node = res.end_function

----------------------------------------------------------------------------
(* C4 *)

\* every definition of the corpus is in the index and every framework has its
\* functions and its function_count
CompletelyBuilt(ix) ==
    /\ \A i \in DOMAIN Discovered :
          DictHas(ix.function_index,
                  FullName(Discovered[i].code, Discovered[i].func.name))
    /\ \A i \in DOMAIN ix.frameworks :
          LET fw == ix.frameworks[i].v
              own == SelectSeq(Discovered, LAMBDA st : st.code = fw.code)
          IN /\ "function_count" \in DOMAIN fw
             /\ fw.function_count = Len(own)
             /\ fw.functions = [j \in DOMAIN own |-> own[j].func]

\* the index a query reads is absent or completely built
QueriesSeeWholeIndex == index # None => CompletelyBuilt(index[1])

\* a constructor that ends with work left over leaves the callers' index alone
FailedBuildKeepsIndex ==
    (fresh # None /\ fresh' = None /\ fresh[1].work # <<>>) => index' = index

\* C4: in every interleaving of builds and queries a query reads no index or
\* a completely built one, never one with only some records inserted, and a
\* build that fails leaves the index the callers held in place.
C4_AtomicBuild == []QueriesSeeWholeIndex /\ [][FailedBuildKeepsIndex]_vars

\* C4 witness: a query returned from the index the callers hold while a
\* rebuild has inserted some records but not all.
C4_Witness ==
    /\ index # None
    /\ fresh # None
    /\ fresh[1].work # <<>>
    /\ fresh[1].ix.function_index # <<>>
    /\ ~CompletelyBuilt(fresh[1].ix)
    /\ res.op = "find_derived_rules"
    /\ res.out # <<>>

----------------------------------------------------------------------------
(* C3 *)

\* C3: when two definitions of the corpus have the same qualified name,
\* validation reports an error, so passed is false: the collision is not
\* accepted silently.
C3_DuplicateReported ==
    (res.op = "validate_all" /\ DuplicateDefinitions) =>
        /\ res.out.passed = FALSE
        /\ \E i \in DOMAIN res.out.errors : res.out.errors[i].severity = "error"

----------------------------------------------------------------------------
(* C11, C12 *)

\* a list of inference types is supplied: None and the empty list are not
TypesSupplied(inference_types) == inference_types # None /\ Len(inference_types[1]) > 0

\* the factor of an inference type, in hundredths
FactorHundredths(inf_type) ==
    CASE inf_type = "deductive" -> 95
      [] inf_type = "inductive" -> 80
      [] inf_type = "abductive" -> 70
      [] inf_type = "analogical" -> 65
      [] OTHER -> 95

RECURSIVE ProductHundredths(_)
\* the exact product of the factors of the types, times 100^Len(types)
ProductHundredths(types) ==
    IF types = <<>> THEN 1
    ELSE FactorHundredths(Head(types)) * ProductHundredths(Tail(types))

\* r ten-thousandths is a decimal of four places nearest to p / 100^k
RoundedTo4(r, p, k) ==
    IF k <= 2 THEN r = p * 100^(2 - k)
    ELSE LET unit == 100^(k - 2)
             d == IF p >= r * unit THEN p - r * unit ELSE r * unit - p
         IN 2 * d <= unit

----------------------------------------------------------------------------
(* C15 *)

\* line is "Level {level}: {name} ({type})" for the node
IsNodeLineOf(line, node) ==
    /\ Len(line) = 7
    /\ line[1] = "Level " /\ line[3] = ": " /\ line[5] = " (" /\ line[7] = ")"
    /\ "level" \in DOMAIN node => line[2] = IntStr(node.level)
    /\ "node" \in DOMAIN node => line[4] = node.node
    /\ ("node" \notin DOMAIN node /\ "name" \in DOMAIN node) => line[4] = node.name
    /\ "type" \in DOMAIN node => line[6] = node.type

\* C15: the explanation of a chain of n > 0 nodes is, line by line, the n node
\* lines in chain order with one arrow line between each two consecutive ones,
\* n - 1 in all and none after the last; that of the empty chain is the message
\* "No inference chain found".
C15_Explain ==
    res.op = "explain" =>
        LET n == Len(res.chain)
        IN IF n = 0 THEN res.out = <<<<"No inference chain found">>>>
           ELSE /\ Len(res.out) = 4 * n - 3
                /\ \A i \in 1..n : IsNodeLineOf(res.out[4 * i - 3], res.chain[i])
                /\ \A i \in 1..(n - 1) : res.out[4 * i - 1] = ArrowLine
                /\ \A i \in 1..(2 * n - 2) : res.out[2 * i] = <<"\n">>

\* the explanation of a chain the index built
C15_Witness ==
    /\ res.op = "explain"
    /\ Len(res.chain) = 2
    /\ "framework" \in DOMAIN res.chain[2]
    /\ Len(res.out) = 5

----------------------------------------------------------------------------
(* C13, C14 *)

NoRepeat(path) == \A i, j \in DOMAIN path : path[i] = path[j] => i = j

\* the graph of the example: A -> B -> C -> A plus A -> D
ExampleGraph ==
    /\ graph # None
    /\ graph[1].edges = Pick(CandidateEdges, {1, 2, 3, 4})

ReturnedPathsSimple ==
    res.op = "find_all_paths" =>
        /\ \A i \in DOMAIN res.out :
              LET path == res.out[i]
              IN /\ path # <<>>
                 /\ path[1] = res.start
                 /\ path[Len(path)] = res.end
                 /\ NoRepeat(path)
                 /\ Len(path) - 1 <= res.max_length
        /\ (ExampleGraph /\ res.start = "A" /\ res.end = "D" /\ res.max_length = 3)
              => res.out = << <<"A", "D">> >>

\* C13: find_all_paths always terminates, on graphs with cycles too, and every
\* path it returns starts at start, ends at end, repeats no node and has at
\* most max_length edges; on A -> B -> C -> A plus A -> D,
\* find_all_paths(A, D, 3) returns exactly [[A, D]].
C13_AllPaths ==
    /\ []ReturnedPathsSimple
    /\ (search # None) ~> (search = None)

C13_Witness ==
    /\ res.op = "find_all_paths"
    /\ ExampleGraph
    /\ res.start = "A" /\ res.end = "D" /\ res.max_length = 3
    /\ res.out = << <<"A", "D">> >>

\* the inference types of the edges from the node named a to the node named b
EdgeTypes(g, a, b) ==
    LET between == EdgesBetween(g, DictGet(g.node_index, a), DictGet(g.node_index, b))
    IN { IF "inference_type" \in DOMAIN between[i].data
         THEN between[i].data.inference_type ELSE "deductive" : i \in DOMAIN between }

IsEdge(g, a, b) ==
    /\ DictHas(g.node_index, a)
    /\ DictHas(g.node_index, b)
    /\ EdgeTypes(g, a, b) # {}

RECURSIVE EdgeProducts(_, _)
\* <<p, k>>: the exact product p / 100^k of the factors of the k consecutive
\* pairs of the path that are edges, each with the type of one of its edges
EdgeProducts(g, path) ==
    IF Len(path) < 2 THEN {<<1, 0>>}
    ELSE LET rest == EdgeProducts(g, Tail(path))
         IN IF IsEdge(g, path[1], path[2])
            THEN { <<FactorHundredths(t) * x[1], x[2] + 1>> :
                       t \in EdgeTypes(g, path[1], path[2]), x \in rest }
            ELSE rest

\* C14: on an available graph, compute_path_confidence of a path of two names
\* or more is the product, rounded to four places, of the factor of the
\* inference type of each consecutive pair that is an edge (0.95 for an edge
\* without a type or of an unknown type); a pair that is no edge, or has an
\* unknown node, contributes nothing.
C14_PathConfidence ==
    (res.op = "compute_path_confidence" /\ is_available /\ Len(res.path) >= 2) =>
        \E x \in EdgeProducts(graph[1], res.path) : RoundedTo4(res.out, x[1], x[2])

----------------------------------------------------------------------------
(* C16 *)

QueryOps ==
    {"search_functions", "find_principles_by_domain", "find_derived_rules",
     "build_inference_chain", "get_framework_stats"}

\* C16: no query changes the index: across a call of search_functions,
\* find_principles_by_domain, find_derived_rules, build_inference_chain or
\* get_framework_stats, with unknown domains and names too, the five
\* structures of the index are what they were, and domain_index and
\* cross_references have no new key.
C16_QueriesPure ==
    [][(index # None /\ res'.op \in QueryOps) =>
          /\ index' # None
          /\ index'[1].frameworks = index[1].frameworks
          /\ index'[1].function_index = index[1].function_index
          /\ index'[1].principle_index = index[1].principle_index
          /\ index'[1].domain_index = index[1].domain_index
          /\ index'[1].cross_references = index[1].cross_references
          /\ DictKeys(index'[1].domain_index) = DictKeys(index[1].domain_index)
          /\ DictKeys(index'[1].cross_references) = DictKeys(index[1].cross_references)]_vars

\* a domain no framework has was looked up in an index that has principles
C16_Witness ==
    /\ res.op = "find_principles_by_domain"
    /\ index[1].principle_index # <<>>
    /\ ~DictHas(index[1].domain_index, res.domain)

----------------------------------------------------------------------------
(* C17 *)

\* no framework that was loaded has the domain
UnknownDomain(domain) ==
    \A i \in DOMAIN framework_defs :
        framework_defs[i].code \in dirs => ~InList(domain, framework_defs[i].domains)

\* no definition of the corpus lists the name among its cross-references
Unreferenced(name) == \A i \in DOMAIN disk : ~InList(name, disk[i].cross_references)

\* no principle of the corpus has the name
NoSuchPrinciple(name) ==
    \A i \in DOMAIN disk :
        (disk[i].is_principle \/ FrameworkOf(disk[i].dir).level = 1) => disk[i].name # name

\* C17: a query that finds nothing returns an empty or absent result and
\* raises nothing: [] from search_functions without a match, from
\* find_principles_by_domain and rules.by_domain on an unknown domain, from
\* find_derived_rules on an unreferenced name and from rules.by_framework on an
\* unknown code; None from principles.get on an unknown name and from
\* build_inference_chain.
C17_NotFoundIsEmpty ==
    /\ res.op \in {"search_functions", "find_principles_by_domain", "rules.by_domain",
                   "find_derived_rules", "rules.by_framework", "principles.get"}
          => res.out # KeyError
    /\ res.op = "search_functions" =>
          ((\A r \in Range(IndexedRecords(index[1])) :
                ~Matches(r, res.query, res.domain)) => res.out = <<>>)
    /\ res.op \in {"find_principles_by_domain", "rules.by_domain"} =>
          (UnknownDomain(res.domain) => res.out = <<>>)
    /\ res.op = "find_derived_rules" =>
          (Unreferenced(res.principle_name) => res.out = <<>>)
    /\ res.op = "rules.by_framework" =>
          (res.framework_code \notin dirs => res.out = <<>>)
    /\ res.op = "principles.get" =>
          (NoSuchPrinciple(res.name) => res.out = None)
    /\ res.op = "build_inference_chain" =>
          ((\A i \in DOMAIN disk :
                ~(disk[i].name = res.end_function
                  /\ InList(res.start_principle, disk[i].cross_references)))
             => res.out = None)

\* a name that no principle has was asked for in an index that has principles
C17_Witness ==
    /\ res.op = "principles.get"
    /\ index[1].principle_index # <<>>
    /\ NoSuchPrinciple(res.name)
    /\ res.out = None

----------------------------------------------------------------------------
(* C18, C19, C20 *)

\* C18: in every result of validate_all, passed is true exactly when the
\* errors of that result are empty; warnings and info do not make it false.
C18_PassedIffNoErrors ==
    res.op = "validate_all" => (res.out.passed <=> res.out.errors = <<>>)

\* a result that passed although it has warnings and info
C18_Witness ==
    /\ res.op = "validate_all"
    /\ res.out.passed
    /\ res.out.warnings # <<>>
    /\ res.out.info # <<>>

StructuredAs(entry, severity) ==
    /\ {"check", "severity", "message"} \subseteq DOMAIN entry
    /\ entry.severity = severity

\* C19: every entry of the report, in errors, warnings and info alike, has the
\* fields check, severity and message, the severity being that of its list.
C19_EntriesStructured ==
    res.op = "validate_all" =>
        /\ \A i \in DOMAIN res.out.errors : StructuredAs(res.out.errors[i], "error")
        /\ \A i \in DOMAIN res.out.warnings : StructuredAs(res.out.warnings[i], "warning")
        /\ \A i \in DOMAIN res.out.info : StructuredAs(res.out.info[i], "info")

\* the cross-references of the definitions of the corpus
CorpusRefs == UNION {Range(Discovered[i].func.cross_references) : i \in DOMAIN Discovered}

\* no definition has ref as its local or as its qualified name
Dangling(ref) ==
    \A i \in DOMAIN Discovered :
        /\ Discovered[i].func.name # ref
        /\ FullName(Discovered[i].code, Discovered[i].func.name) # ref

\* the names the cross-reference warnings of a report name
FlaggedRefs(report) ==
    {report.warnings[i].message[3] :
        i \in {j \in DOMAIN report.warnings :
                 /\ report.warnings[j].check = "cross_references"
                 /\ report.warnings[j].message[1] = "references unknown principle"}}

\* C20: check_cross_references flags a cross-reference exactly when no record
\* has it as local or qualified name; it flags with warnings, never with
\* errors, and a reference to an existing principle or rule is not flagged.
C20_DanglingFlagged ==
    (res.op = "validate_all" /\ validations = 1) =>
        /\ \A ref \in CorpusRefs : ref \in FlaggedRefs(res.out) <=> Dangling(ref)
        /\ \A i \in DOMAIN res.out.errors : res.out.errors[i].check # "cross_references"

----------------------------------------------------------------------------
(* C21, C22, C26, C29 *)

LevelOf(code) == FrameworkOf(code).level

\* C21: after a build every record of a level-1 framework is in the principle
\* index and carries is_principle = TRUE, so rules.by_framework of a level-1
\* framework returns nothing; and every entry of the principle index is
\* tagged is_principle or belongs to a level-1 framework.
C21_LevelOneArePrinciples ==
    index # None =>
        /\ \A r \in Range(IndexedRecords(index[1])) :
              LevelOf(r.framework) = 1 =>
                  /\ DictHas(index[1].principle_index, r.name)
                  /\ r.is_principle
        /\ (/\ res.op = "rules.by_framework"
            /\ res.framework_code \in AllCodes
            /\ LevelOf(res.framework_code) = 1) => res.out = <<>>
        /\ \A i \in DOMAIN index[1].principle_index :
              \/ index[1].principle_index[i].v.is_principle
              \/ LevelOf(index[1].principle_index[i].v.framework) = 1

AllDomains == UNION {Range(framework_defs[i].domains) : i \in DOMAIN framework_defs}

\* the qualified names of the discovered definitions whose framework declares
\* domain, in discovery order
DeclaredUnder(domain) ==
    LET steps == SelectSeq(Discovered,
                           LAMBDA st : InList(domain, FrameworkOf(st.code).domains))
    IN [i \in DOMAIN steps |-> FullName(steps[i].code, steps[i].func.name)]

\* C22: after a build, for every domain d, domain_index[d] is the sequence of
\* the qualified names of the records whose framework declares d, in discovery
\* order: a record appears under each domain of its framework and under no
\* other domain.
C22_DomainIndexExact ==
    index # None =>
        /\ DictKeys(index[1].domain_index) \subseteq AllDomains
        /\ \A d \in AllDomains :
              DictGetOr(index[1].domain_index, d, <<>>) = DeclaredUnder(d)

\* two records of civ under each of its four domains, beside a record of lv1
C22_Witness ==
    /\ index # None
    /\ Len(DictGetOr(index[1].domain_index, "contract", <<>>)) = 2
    /\ DictGetOr(index[1].domain_index, "family", <<>>) =
          DictGetOr(index[1].domain_index, "contract", <<>>)
    /\ \E r \in Range(IndexedRecords(index[1])) : r.framework = lv1
    /\ ~DictHas(index[1].domain_index, "criminal")

\* C26: after a build every qualified name in a sequence of domain_index or
\* of cross_references is a key of function_index, so rules.by_domain and
\* find_derived_rules never fail with a missing key.
C26_NamesAreKeys ==
    index # None =>
        /\ \A i \in DOMAIN index[1].domain_index :
              \A n \in Range(index[1].domain_index[i].v) :
                  DictHas(index[1].function_index, n)
        /\ \A i \in DOMAIN index[1].cross_references :
              \A n \in Range(index[1].cross_references[i].v) :
                  DictHas(index[1].function_index, n)
        /\ res.op \in {"rules.by_domain", "find_derived_rules"} => res.out # KeyError

\* find_derived_rules has looked up the rules that refer to a principle
C26_Witness ==
    /\ index # None
    /\ index[1].domain_index # <<>>
    /\ res.op = "find_derived_rules"
    /\ Len(res.out) = 2

RECURSIVE SumFunctionCounts(_)
SumFunctionCounts(frameworks) ==
    IF frameworks = <<>> THEN 0
    ELSE Head(frameworks).v.function_count + SumFunctionCounts(Tail(frameworks))

\* C29: in the statistics of a built index, total_functions is the sum of the
\* function_count of the frameworks, and the function_count of every domain
\* is the number of distinct records listed under the domain.
C29_StatsAgree ==
    res.op = "get_framework_stats" =>
        /\ res.out.total_functions = SumFunctionCounts(res.out.frameworks)
        /\ \A i \in DOMAIN res.out.domains :
              res.out.domains[i].v.function_count =
                  Cardinality(Range(DictGet(index[1].domain_index, res.out.domains[i].k)))

----------------------------------------------------------------------------
(* C23 *)

\* C23: a definition that cannot be extracted does not stop the build and
\* costs that definition only: every other definition, of the same file
\* before or after it and of the other files, is extracted and indexed.
C23_FailureIsolated ==
    index # None =>
        \A i \in DOMAIN disk :
            ~Undecodable(disk[i]) =>
                /\ DictHas(index[1].function_index, FullName(disk[i].dir, disk[i].name))
                /\ \E j \in DOMAIN DictGet(index[1].frameworks, disk[i].dir).functions :
                      DictGet(index[1].frameworks, disk[i].dir).functions[j] =
                          FuncRecord(disk[i])

----------------------------------------------------------------------------
(* C24, C27, C28 *)

\* the fixed query set
SnapshotQueries == QueryArgs \X DomainArgs

C27_ExportKeepsIndex ==
    [][res'.op = "export_index" => index' = index]_vars

\* C28: when ChainLex.search is given a domain, every item of the principles
\* and of the rules it returns belongs to a framework declaring the domain.
C28_SearchWithinDomain ==
    (res.op = "search" /\ DomainGiven(res.domain)) =>
        /\ \A i \in DOMAIN res.out.principles :
              InList(res.domain[1], FrameworkOf(res.out.principles[i].framework).domains)
        /\ \A i \in DOMAIN res.out.rules :
              InList(res.domain[1], FrameworkOf(res.out.rules[i].framework).domains)

----------------------------------------------------------------------------
(* C25, C30 *)

\* the lists of a validator that has not run
NewLists == [errors |-> <<>>, warnings |-> <<>>, info |-> <<>>]

C30_Idempotent ==
    (res.op = "validate_all" /\ validations = 2) =>
        LET first == validate_all(index[1], NewLists)
        IN /\ res.out.errors = first.errors
           /\ res.out.warnings = first.warnings
           /\ res.out.info = first.info
           /\ res.out.total_checks = first.total_checks

====
